---- MODULE Spec2Model ----
(***************************************************************************)
(* Model of the connection pool, the MongoDB service, the schema extractor, *)
(* the field-folding and relationship detection and the query generator of *)
(* the Dataverse backend.                                                  *)
(*                                                                         *)
(*   ConnectionPoolManager, MongoDBService : src/src/models/ChatHistory.ts *)
(*   SchemaService                         : src/unnamed/part_001          *)
(*   CacheService, AIService               : src/src/services/encryption.service.ts *)
(*   chat controller executeQuery          : src/src/controllers/projects.controller.ts *)
(*   QueryGeneratorService                 : src/src/services/query-generator.service.ts *)
(***************************************************************************)
EXTENDS Integers, Sequences, FiniteSets, TLC

VARIABLES
  pools,            \* ConnectionPoolManager.pools : poolKey -> {client, lastUsed, refCount}
  cleanupInterval,  \* TRUE while the setInterval timer of the pool is armed
  closeAllPc,       \* position of a running closeAll(): "idle" or "loop"
  visited,          \* pool keys the running closeAll() loop has already closed
  now,              \* wall clock, in ms since the pool was constructed
  ticks,            \* number of Tick steps taken (bounds the clock)
  clients,          \* every MongoClient ever constructed: <<[key, st]>>, id = index
  svc,              \* the MongoDBService instance / request handler of each request slot
  writes,           \* write commands issued against an external database
  redis,            \* the cache store: the snapshot stored under schema:<project>, if any
  persisted,        \* the project's schemaCache in the project store, if any
  samples,          \* analyzeFields: the sampled documents
  foldIdx,          \* analyzeFields: number of documents folded so far
  fieldMap,         \* analyzeFields: fieldMap, as a sequence of [path, field] in insertion order
  fields,           \* analyzeFields: the returned FieldSchema list (after sampleValues)
  collections,      \* detectRelationships: the CollectionSchema list it is given
  relIdx,           \* detectRelationships: number of collections visited by the outer loop
  relationships,    \* detectRelationships: the relationships pushed, then the returned list
  message,          \* QueryGeneratorService: the user's message, a sequence of characters
  intent,           \* QueryGeneratorService: the QueryIntent of parseIntent, if any
  generated         \* QueryGeneratorService: the GeneratedQuery of generateQuery, if any

poolVars == <<pools, cleanupInterval, closeAllPc, visited, now, ticks, clients>>
reqVars  == <<svc, writes, redis, persisted>>
foldVars == <<samples, foldIdx, fieldMap, fields>>
relVars  == <<collections, relIdx, relationships>>
qgVars   == <<message, intent, generated>>
pureVars == <<samples, foldIdx, fieldMap, fields, collections, relIdx, relationships,
              message, intent, generated>>
vars     == <<pools, cleanupInterval, closeAllPc, visited, now, ticks, clients,
              svc, writes, redis, persisted, samples, foldIdx, fieldMap, fields,
              collections, relIdx, relationships, message, intent, generated>>

(***************************************************************************)
(* Bounds of the model.                                                    *)
(***************************************************************************)
NumServices == 2
MaxClients == 2
MaxTicks == 2
MaxRefCount == 3

Services == 1 .. NumServices

(***************************************************************************)
(* Program constants.                                                      *)
(***************************************************************************)
SWEEP_INTERVAL == 60000
CONNECTION_POOL_IDLE == 30 * 60 * 1000

(***************************************************************************)
(* Connection strings, as sequences of UTF-16 code units.                  *)
(***************************************************************************)
CH_COLON == 58
CH_SLASH == 47
CH_QUERY == 63
CH_HASH  == 35

\* "mongodb://"
S_MONGODB == <<109, 111, 110, 103, 111, 100, 98, 58, 47, 47>>
\* "mongodb+srv://"
S_MONGODB_SRV == <<109, 111, 110, 103, 111, 100, 98, 43, 115, 114, 118, 58, 47, 47>>
\* "http://"
S_HTTP == <<104, 116, 116, 112, 58, 47, 47>>
\* "https://"
S_HTTPS == <<104, 116, 116, 112, 115, 58, 47, 47>>

\* "mongodb://h/a"
URI_A == S_MONGODB \o <<104, 47, 97>>
\* "mongodb://h/b"
URI_B == S_MONGODB \o <<104, 47, 98>>
\* "mongodb://h"  (no database in the path)
URI_NODB == S_MONGODB \o <<104>>
\* ""
URI_EMPTY == <<>>

(***************************************************************************)
(* hashConnectionString: hash = ((hash << 5) - hash) + char; hash & hash,  *)
(* i.e. hash*31 + char reduced to a 32-bit integer at every step, and      *)
(* Math.abs at the end.  The 32-bit word is kept as two 16-bit halves      *)
(* <<hi, lo>>.                                                             *)
(***************************************************************************)
RECURSIVE HashFrom(_, _, _)
HashFrom(cs, i, h) ==
  IF i > Len(cs) THEN h
  ELSE LET lo == h[2] * 31 + cs[i]
           hi == h[1] * 31 + (lo \div 65536)
       IN  HashFrom(cs, i + 1, <<hi % 65536, lo % 65536>>)

\* Math.abs of the signed 32-bit word <<hi, lo>>, again as two halves
\* (abs(-2^31) = 2^31 is <<32768, 0>>).
Abs32(h) ==
  IF h[1] < 32768 THEN h
  ELSE IF h[2] = 0 THEN <<65536 - h[1], 0>>
  ELSE <<65535 - h[1], 65536 - h[2]>>

hashConnectionString(cs) == <<"pool">> \o Abs32(HashFrom(cs, 1, <<0, 0>>))

(***************************************************************************)
(* Pool entries and clients.                                               *)
(***************************************************************************)
EmptyPools == [k \in {} |-> 0]

PoolSet(P, key, entry) ==
  [k \in (DOMAIN P) \cup {key} |-> IF k = key THEN entry ELSE P[k]]

PoolDelete(P, keys) == [k \in (DOMAIN P) \ keys |-> P[k]]

\* client.close() on every client in ids
CloseClients(C, ids) ==
  [i \in DOMAIN C |-> IF i \in ids THEN [C[i] EXCEPT !.st = "closed"] ELSE C[i]]

\* clients that were connected and have not been closed
LiveClients(key) == {i \in DOMAIN clients : clients[i].key = key /\ clients[i].st = "open"}

(***************************************************************************)
(* The request slots.  Each slot holds the MongoDBService instance that a  *)
(* request handler constructs, and the handler's position.                 *)
(***************************************************************************)
NoResult == [kind |-> "none"]

IdleSvc ==
  [op |-> "idle", pc |-> "idle", cs |-> URI_EMPTY,
   client |-> 0, isConnected |-> FALSE, pending |-> 0,
   acq |-> 0, rel |-> 0, rcBefore |-> 0, threw |-> FALSE, result |-> NoResult,
   arg |-> <<>>, names |-> <<>>, done |-> <<>>, cacheOn |-> FALSE, failedAt |-> "none",
   stored |-> NoResult]

\* new MongoDBService(connectionString) inside a handler running operation op
NewSvc(op, cs) == [IdleSvc EXCEPT !.op = op, !.pc = "connect", !.cs = cs]

RefCountOf(P, cs) ==
  IF hashConnectionString(cs) \in DOMAIN P THEN P[hashConnectionString(cs)].refCount ELSE 0

(***************************************************************************)
(* ConnectionPoolManager.getConnection, as called by                       *)
(* MongoDBService.connect.  The call runs up to `await client.connect()`   *)
(* in one step and resumes in a second one.                                *)
(***************************************************************************)
ConnectStart(s) ==
  /\ svc[s].pc = "connect"
  /\ LET cs  == svc[s].cs
         key == hashConnectionString(cs)
     IN  IF cs = URI_EMPTY
         THEN \* throw new Error('Connection string is required')
              /\ svc' = [svc EXCEPT ![s].pc = "connectFailed"]
              /\ UNCHANGED <<pools, clients>>
         ELSE IF key \in DOMAIN pools
         THEN /\ pools[key].refCount < MaxRefCount
              /\ pools' = [pools EXCEPT ![key].refCount = @ + 1, ![key].lastUsed = now]
              /\ svc' = [svc EXCEPT ![s].client = pools[key].client,
                                    ![s].isConnected = TRUE,
                                    ![s].acq = @ + 1,
                                    ![s].pc = "connected"]
              /\ UNCHANGED clients
         ELSE /\ Len(clients) < MaxClients
              /\ clients' = Append(clients, [key |-> key, st |-> "connecting"])
              /\ svc' = [svc EXCEPT ![s].pending = Len(clients) + 1,
                                    ![s].pc = "connecting"]
              /\ UNCHANGED pools
  /\ UNCHANGED <<cleanupInterval, closeAllPc, visited, now, ticks, writes, redis, persisted>>
  /\ UNCHANGED pureVars

\* the pool entry getConnection stores once client.connect() has resolved
NewPoolEntry(c, t) == [client |-> c, lastUsed |-> t, refCount |-> 1]

ConnectEnd(s, ok) ==
  /\ svc[s].pc = "connecting"
  /\ LET c   == svc[s].pending
         key == hashConnectionString(svc[s].cs)
     IN  IF ok
         THEN /\ clients' = [clients EXCEPT ![c].st = "open"]
              /\ pools' = PoolSet(pools, key, NewPoolEntry(c, now))
              /\ svc' = [svc EXCEPT ![s].client = c,
                                    ![s].isConnected = TRUE,
                                    ![s].pending = 0,
                                    ![s].acq = @ + 1,
                                    ![s].pc = "connected"]
         ELSE /\ clients' = [clients EXCEPT ![c].st = "failed"]
              /\ svc' = [svc EXCEPT ![s].pending = 0, ![s].pc = "connectFailed"]
              /\ UNCHANGED pools
  /\ UNCHANGED <<cleanupInterval, closeAllPc, visited, now, ticks, writes, redis, persisted>>
  /\ UNCHANGED pureVars

(***************************************************************************)
(* ConnectionPoolManager.releaseConnection and MongoDBService.disconnect.  *)
(***************************************************************************)
releaseConnectionDropsAtZero(P, cs, t) ==
  LET key == hashConnectionString(cs)
  IN  IF key \in DOMAIN P
      THEN IF P[key].refCount = 1
           THEN [k \in (DOMAIN P) \ {key} |-> P[k]]
           ELSE [P EXCEPT ![key].refCount = @ - 1, ![key].lastUsed = t]
      ELSE P

releaseConnection(P, cs, t) ==
  LET key == hashConnectionString(cs)
  IN  IF key \in DOMAIN P
      THEN [P EXCEPT ![key].refCount = @ - 1, ![key].lastUsed = t]
      ELSE P

\* if (this.client && this.isConnected)
DisconnectReleases(r) == r.client # 0 /\ r.isConnected

PoolsAfterDisconnectNoRelease(P, r, t) == P

PoolsAfterDisconnect(P, r, t) ==
  IF DisconnectReleases(r) THEN releaseConnection(P, r.cs, t) ELSE P

SvcAfterDisconnect(r) ==
  IF DisconnectReleases(r)
  THEN [r EXCEPT !.isConnected = FALSE, !.rel = @ + 1]
  ELSE r

(***************************************************************************)
(* A handler that connects, reads and disconnects (getCollectionSample,    *)
(* getFieldDistribution in the schema controller).                         *)
(***************************************************************************)
SessionStart(s, cs) ==
  /\ svc[s].pc = "idle"
  /\ svc' = [svc EXCEPT ![s] = NewSvc("session", cs)]
  /\ UNCHANGED <<writes, redis, persisted>>
  /\ UNCHANGED poolVars
  /\ UNCHANGED pureVars

SessionEnd(s) ==
  /\ svc[s].op = "session"
  /\ svc[s].pc = "connected"
  /\ pools' = PoolsAfterDisconnect(pools, svc[s], now)
  /\ svc' = [svc EXCEPT ![s] = [SvcAfterDisconnect(svc[s]) EXCEPT !.pc = "done"]]
  /\ UNCHANGED <<cleanupInterval, closeAllPc, visited, now, ticks, clients, writes, redis, persisted>>
  /\ UNCHANGED pureVars

SessionFail(s) ==
  /\ svc[s].op = "session"
  /\ svc[s].pc = "connectFailed"
  /\ svc' = [svc EXCEPT ![s].threw = TRUE, ![s].pc = "done"]
  /\ UNCHANGED <<writes, redis, persisted>>
  /\ UNCHANGED poolVars
  /\ UNCHANGED pureVars

\* the request has ended; the slot serves the next request
Finish(s) ==
  /\ svc[s].pc = "done"
  /\ svc' = [svc EXCEPT ![s] = IdleSvc]
  /\ UNCHANGED <<writes, redis, persisted>>
  /\ UNCHANGED poolVars
  /\ UNCHANGED pureVars

(***************************************************************************)
(* MongoDBService.extractDatabaseName: the scheme is replaced by http(s),  *)
(* the string is parsed as a URL and the path without its leading slash is *)
(* the database name; an unparsable string or an empty path gives null     *)
(* (here <<>>).                                                            *)
(***************************************************************************)
StartsWithAt(str, i, pat) ==
  /\ i + Len(pat) - 1 <= Len(str)
  /\ \A j \in 1 .. Len(pat) : str[i + j - 1] = pat[j]

\* String.prototype.replace(pattern, replacement) with a string pattern: the
\* first occurrence only
ReplaceFirst(str, pat, rep) ==
  LET hits == {i \in 1 .. Len(str) : StartsWithAt(str, i, pat)}
  IN  IF hits = {} THEN str
      ELSE LET i == CHOOSE x \in hits : \A y \in hits : x <= y
           IN  SubSeq(str, 1, i - 1) \o rep \o SubSeq(str, i + Len(pat), Len(str))

\* index of the first element of str at or after i that is in stops, or Len(str) + 1
FirstOf(str, i, stops) ==
  LET hits == {j \in i .. Len(str) : str[j] \in stops}
  IN  IF hits = {} THEN Len(str) + 1
      ELSE CHOOSE x \in hits : \A y \in hits : x <= y

\* new URL(str).pathname for an http(s) URL with a host; [ok |-> FALSE] when the
\* constructor throws
UrlPathname(str) ==
  LET start == IF StartsWithAt(str, 1, S_HTTP) THEN Len(S_HTTP) + 1
               ELSE IF StartsWithAt(str, 1, S_HTTPS) THEN Len(S_HTTPS) + 1
               ELSE 0
  IN  IF start = 0 THEN [ok |-> FALSE, path |-> <<>>]
      ELSE LET hostEnd == FirstOf(str, start, {CH_SLASH, CH_QUERY, CH_HASH})
               pathEnd == FirstOf(str, hostEnd, {CH_QUERY, CH_HASH})
           IN  IF hostEnd = start THEN [ok |-> FALSE, path |-> <<>>]
               ELSE IF hostEnd > Len(str) \/ str[hostEnd] # CH_SLASH
                    THEN [ok |-> TRUE, path |-> <<CH_SLASH>>]
                    ELSE [ok |-> TRUE, path |-> SubSeq(str, hostEnd, pathEnd - 1)]

\* pathname.slice(1).split('?')[0]
DbNameOfPath(path) ==
  LET rest == SubSeq(path, 2, Len(path))
  IN  SubSeq(rest, 1, FirstOf(rest, 1, {CH_QUERY}) - 1)

extractDatabaseName(cs) ==
  LET url == UrlPathname(ReplaceFirst(ReplaceFirst(cs, S_MONGODB, S_HTTP),
                                      S_MONGODB_SRV, S_HTTPS))
  IN  IF url.ok THEN DbNameOfPath(url.path) ELSE <<>>

(***************************************************************************)
(* MongoDBService.validateConnection.                                      *)
(***************************************************************************)
ConnectionInfo(valid, db, ro, err) ==
  [kind |-> "ConnectionInfo", isValid |-> valid, databaseName |-> db,
   isReadOnly |-> ro, error |-> err]

WriteCmd(name, by) == [op |-> name, by |-> by]

ValidateStart(s, cs) ==
  /\ svc[s].pc = "idle"
  /\ svc' = [svc EXCEPT ![s] = [NewSvc("validate", cs) EXCEPT
                                  !.rcBefore = RefCountOf(pools, cs)]]
  /\ UNCHANGED <<writes, redis, persisted>>
  /\ UNCHANGED poolVars
  /\ UNCHANGED pureVars

\* return res; finally { await this.disconnect() }
ValidateReturn(s, res, failed) ==
  /\ pools' = PoolsAfterDisconnect(pools, svc[s], now)
  /\ svc' = [svc EXCEPT ![s] = [SvcAfterDisconnect(svc[s]) EXCEPT
                                  !.result = res, !.failedAt = failed, !.pc = "done"]]

\* connect() threw: catch, finally
ValidateConnectFailed(s) ==
  /\ svc[s].op = "validate"
  /\ svc[s].pc = "connectFailed"
  /\ ValidateReturn(s, ConnectionInfo(FALSE, <<>>, "unset", "connect failed"), "connect")
  /\ UNCHANGED <<cleanupInterval, closeAllPc, visited, now, ticks, clients, writes, redis, persisted>>
  /\ UNCHANGED pureVars

\* steps 2 and 3: the database name, then db.command({ping: 1}) is awaited
ValidateDbName(s) ==
  /\ svc[s].op = "validate"
  /\ svc[s].pc = "connected"
  /\ IF extractDatabaseName(svc[s].cs) = <<>>
     THEN ValidateReturn(s, ConnectionInfo(FALSE, <<>>, "unset", "No database specified in URI"),
                         "dbname")
     ELSE /\ svc' = [svc EXCEPT ![s].pc = "ping"]
          /\ UNCHANGED pools
  /\ UNCHANGED <<cleanupInterval, closeAllPc, visited, now, ticks, clients, writes, redis, persisted>>
  /\ UNCHANGED pureVars

\* the ping resolved (ok) or rejected; checkReadOnly then issues createCollection
ValidatePing(s, ok) ==
  /\ svc[s].op = "validate"
  /\ svc[s].pc = "ping"
  /\ IF ok
     THEN /\ svc' = [svc EXCEPT ![s].pc = "create"]
          /\ writes' = writes \cup {WriteCmd("createCollection", "validateConnection")}
          /\ UNCHANGED pools
     ELSE /\ ValidateReturn(s, ConnectionInfo(FALSE, <<>>, "unset", "ping failed"), "ping")
          /\ UNCHANGED writes
  /\ UNCHANGED <<cleanupInterval, closeAllPc, visited, now, ticks, clients, redis, persisted>>
  /\ UNCHANGED pureVars

\* the value checkReadOnly returns when a step of the probe has thrown
ProbeFailedReadOnly == "true"

\* createCollection resolved: dropCollection is issued; rejected: read-only
ValidateCreate(s, ok) ==
  /\ svc[s].op = "validate"
  /\ svc[s].pc = "create"
  /\ IF ok
     THEN /\ svc' = [svc EXCEPT ![s].pc = "drop"]
          /\ writes' = writes \cup {WriteCmd("dropCollection", "validateConnection")}
          /\ UNCHANGED pools
     ELSE /\ ValidateReturn(s, ConnectionInfo(TRUE, extractDatabaseName(svc[s].cs),
                                              ProbeFailedReadOnly, ""), "probe")
          /\ UNCHANGED writes
  /\ UNCHANGED <<cleanupInterval, closeAllPc, visited, now, ticks, clients, redis, persisted>>
  /\ UNCHANGED pureVars

ValidateDrop(s, ok) ==
  /\ svc[s].op = "validate"
  /\ svc[s].pc = "drop"
  /\ IF ok
     THEN ValidateReturn(s, ConnectionInfo(TRUE, extractDatabaseName(svc[s].cs), "false", ""),
                         "none")
     ELSE ValidateReturn(s, ConnectionInfo(TRUE, extractDatabaseName(svc[s].cs),
                                           ProbeFailedReadOnly, ""), "probe")
  /\ UNCHANGED <<cleanupInterval, closeAllPc, visited, now, ticks, clients, writes, redis, persisted>>
  /\ UNCHANGED pureVars

(***************************************************************************)
(* The chat controller's executeQuery endpoint: the query type and the     *)
(* pipeline come from the request body.                                    *)
(***************************************************************************)
\* the stages of a pipeline that write
WriteStages(pipeline) == {pipeline[i] : i \in DOMAIN pipeline} \cap {"$out", "$merge"}

ChatQueryStart(s, cs, queryType, pipeline) ==
  /\ svc[s].pc = "idle"
  /\ svc' = [svc EXCEPT ![s] = [NewSvc("chatQuery", cs) EXCEPT
                                  !.arg = <<queryType, pipeline>>]]
  /\ UNCHANGED <<writes, redis, persisted>>
  /\ UNCHANGED poolVars
  /\ UNCHANGED pureVars

\* connect() threw: next(error)
ChatQueryConnectFailed(s) ==
  /\ svc[s].op = "chatQuery"
  /\ svc[s].pc = "connectFailed"
  /\ svc' = [svc EXCEPT ![s].threw = TRUE, ![s].pc = "done"]
  /\ UNCHANGED <<writes, redis, persisted>>
  /\ UNCHANGED poolVars
  /\ UNCHANGED pureVars

\* switch (queryType): the command is sent, or ValidationError goes to next(error)
ChatQueryExec(s) ==
  /\ svc[s].op = "chatQuery"
  /\ svc[s].pc = "connected"
  /\ LET queryType == svc[s].arg[1]
         pipeline  == svc[s].arg[2]
     IN  IF queryType \in {"find", "count"}
         THEN /\ svc' = [svc EXCEPT ![s].pc = "exec"]
              /\ UNCHANGED writes
         ELSE IF queryType = "aggregate"
         THEN /\ svc' = [svc EXCEPT ![s].pc = "exec"]
              /\ writes' = writes \cup {WriteCmd(st, "executeAggregation") :
                                          st \in WriteStages(pipeline)}
         ELSE /\ svc' = [svc EXCEPT ![s].threw = TRUE, ![s].pc = "done"]
              /\ UNCHANGED writes
  /\ UNCHANGED <<redis, persisted>>
  /\ UNCHANGED poolVars
  /\ UNCHANGED pureVars

\* the command resolved: disconnect and respond; rejected: next(error)
ChatQueryDone(s, ok) ==
  /\ svc[s].op = "chatQuery"
  /\ svc[s].pc = "exec"
  /\ IF ok
     THEN /\ pools' = PoolsAfterDisconnect(pools, svc[s], now)
          /\ svc' = [svc EXCEPT ![s] = [SvcAfterDisconnect(svc[s]) EXCEPT !.pc = "done"]]
     ELSE /\ svc' = [svc EXCEPT ![s].threw = TRUE, ![s].pc = "done"]
          /\ UNCHANGED pools
  /\ UNCHANGED <<cleanupInterval, closeAllPc, visited, now, ticks, clients, writes, redis, persisted>>
  /\ UNCHANGED pureVars

(***************************************************************************)
(* SchemaService.extractAndCacheSchema, called by the extractSchema        *)
(* handler on a SchemaService it has just constructed.                     *)
(***************************************************************************)
\* the non-system collections of the database behind a connection string
DbCollections(cs) == IF cs = URI_B THEN <<>> ELSE <<"users", "orders">>

NullResult == [kind |-> "null"]

Snapshot(cols) == [kind |-> "snapshot", collections |-> cols]

\* CacheService.get: null unless the store is connected and holds the key
CacheGet(connected, store) == IF connected THEN store ELSE NoResult

ExtractFailureResultPartial(done) == Snapshot(done)

\* what extractAndCacheSchema returns when extractSchema has thrown; done is
\* the list of collections analysed before the failure
ExtractFailureResult(done) == NullResult

\* extractSchema's catch block, then extractAndCacheSchema's: disconnect,
\* rethrow, log, return null
ExtractAbort(s, stage) ==
  /\ pools' = PoolsAfterDisconnect(pools, svc[s], now)
  /\ svc' = [svc EXCEPT ![s] = [SvcAfterDisconnect(svc[s]) EXCEPT
                                  !.result = ExtractFailureResult(svc[s].done),
                                  !.failedAt = stage, !.pc = "done"]]

\* every listed collection is analysed: detectRelationships, disconnect, and
\* extractAndCacheSchema goes on to cacheService.set
ExtractComplete(s, cols) ==
  /\ pools' = PoolsAfterDisconnect(pools, svc[s], now)
  /\ svc' = [svc EXCEPT ![s] = [SvcAfterDisconnect(svc[s]) EXCEPT
                                  !.done = cols, !.pc = "cacheSet"]]

\* new SchemaService(): the CacheService starts connecting and is not
\* connected yet when cacheService.get runs; stored is what the store held
\* under the project's key at that moment
ExtractStart(s, cs) ==
  /\ svc[s].pc = "idle"
  /\ LET cached == CacheGet(IdleSvc.cacheOn, redis)
     IN  IF cached.kind # "none"
         THEN svc' = [svc EXCEPT ![s] = [IdleSvc EXCEPT !.op = "extract", !.cs = cs,
                                                        !.result = cached,
                                                        !.stored = redis,
                                                        !.arg = <<"hit">>,
                                                        !.pc = "done"]]
         ELSE svc' = [svc EXCEPT ![s] = [NewSvc("extract", cs) EXCEPT !.stored = redis]]
  /\ UNCHANGED <<writes, redis, persisted>>
  /\ UNCHANGED poolVars
  /\ UNCHANGED pureVars

\* the 'connect' event of the redis client
RedisConnected(s) ==
  /\ svc[s].op = "extract"
  /\ svc[s].pc # "done"
  /\ ~svc[s].cacheOn
  /\ svc' = [svc EXCEPT ![s].cacheOn = TRUE]
  /\ UNCHANGED <<writes, redis, persisted>>
  /\ UNCHANGED poolVars
  /\ UNCHANGED pureVars

ExtractConnectFailed(s) ==
  /\ svc[s].op = "extract"
  /\ svc[s].pc = "connectFailed"
  /\ ExtractAbort(s, "connect")
  /\ UNCHANGED <<cleanupInterval, closeAllPc, visited, now, ticks, clients, writes, redis, persisted>>
  /\ UNCHANGED pureVars

\* step 2: listCollections is awaited
ExtractListCall(s) ==
  /\ svc[s].op = "extract"
  /\ svc[s].pc = "connected"
  /\ svc' = [svc EXCEPT ![s].pc = "list"]
  /\ UNCHANGED <<writes, redis, persisted>>
  /\ UNCHANGED poolVars
  /\ UNCHANGED pureVars

\* listCollections resolved or rejected
ExtractList(s, ok) ==
  /\ svc[s].op = "extract"
  /\ svc[s].pc = "list"
  /\ IF ~ok
     THEN ExtractAbort(s, "list")
     ELSE LET names == DbCollections(svc[s].cs)
          IN  IF names = <<>>
              THEN ExtractComplete(s, <<>>)
              ELSE /\ svc' = [svc EXCEPT ![s].names = names, ![s].pc = "analyze"]
                   /\ UNCHANGED pools
  /\ UNCHANGED <<cleanupInterval, closeAllPc, visited, now, ticks, clients, writes, redis, persisted>>
  /\ UNCHANGED pureVars

\* the Promise.all of analyzeCollection resolved or rejected
ExtractAnalyze(s, ok) ==
  /\ svc[s].op = "extract"
  /\ svc[s].pc = "analyze"
  /\ IF ~ok
     THEN ExtractAbort(s, "analyze")
     ELSE LET cols == Append(svc[s].done, svc[s].names[Len(svc[s].done) + 1])
          IN  IF Len(cols) = Len(svc[s].names)
              THEN ExtractComplete(s, cols)
              ELSE /\ svc' = [svc EXCEPT ![s].done = cols]
                   /\ UNCHANGED pools
  /\ UNCHANGED <<cleanupInterval, closeAllPc, visited, now, ticks, clients, writes, redis, persisted>>
  /\ UNCHANGED pureVars

CacheSetRaisesOnFailure(connected, ok) == connected /\ ~ok

\* whether CacheService.set raises: it returns when the store is not connected
\* and catches the failure of setEx
CacheSetRaises(connected, ok) == FALSE

\* cacheService.set: nothing when the store is not connected, else setEx, which
\* may fail; persistSchemaToDB is called next, and the catch of
\* extractAndCacheSchema returns null for whatever is raised
ExtractCacheSet(s, ok) ==
  /\ svc[s].op = "extract"
  /\ svc[s].pc = "cacheSet"
  /\ IF CacheSetRaises(svc[s].cacheOn, ok)
     THEN /\ svc' = [svc EXCEPT ![s].result = NullResult, ![s].pc = "done"]
          /\ UNCHANGED redis
     ELSE IF svc[s].cacheOn /\ ok
     THEN /\ redis' = Snapshot(svc[s].done)
          /\ svc' = [svc EXCEPT ![s].arg = Append(@, "cached"), ![s].pc = "persist"]
     ELSE /\ svc' = [svc EXCEPT ![s].arg = Append(@, "notCached"), ![s].pc = "persist"]
          /\ UNCHANGED redis
  /\ UNCHANGED <<writes, persisted>>
  /\ UNCHANGED poolVars
  /\ UNCHANGED pureVars

\* persistSchemaToDB: a failure is logged only; the snapshot is returned
ExtractPersist(s, ok) ==
  /\ svc[s].op = "extract"
  /\ svc[s].pc = "persist"
  /\ IF ok
     THEN /\ persisted' = Snapshot(svc[s].done)
          /\ svc' = [svc EXCEPT ![s].arg = Append(@, "persisted"),
                                ![s].result = Snapshot(svc[s].done), ![s].pc = "done"]
     ELSE /\ svc' = [svc EXCEPT ![s].result = Snapshot(svc[s].done), ![s].pc = "done"]
          /\ UNCHANGED persisted
  /\ UNCHANGED <<writes, redis>>
  /\ UNCHANGED poolVars
  /\ UNCHANGED pureVars

(***************************************************************************)
(* The cleanup timer (startCleanupInterval) and closeAll.                  *)
(***************************************************************************)
IsIdleAnyRefCount(pool, t) == t - pool.lastUsed > CONNECTION_POOL_IDLE

\* the condition under which the sweep closes a pool entry at time t
IsIdle(pool, t) ==
  (t - pool.lastUsed > CONNECTION_POOL_IDLE) /\ pool.refCount = 0

SweepEvicts(P, t) == {k \in DOMAIN P : IsIdle(P[k], t)}

\* d periods of the interval timer elapse with no other operation in between; the
\* callback runs at the end of each period if the timer is armed.  The condition
\* of the sweep only grows with time while nothing else runs, so the d sweeps
\* close exactly what the last one closes.
Tick(d) ==
  /\ ticks < MaxTicks
  /\ ticks' = ticks + 1
  /\ now' = now + d * SWEEP_INTERVAL
  /\ IF cleanupInterval
     THEN LET ev == SweepEvicts(pools, now')
          IN  /\ pools' = PoolDelete(pools, ev)
              /\ clients' = CloseClients(clients, {pools[k].client : k \in ev})
     ELSE UNCHANGED <<pools, clients>>
  /\ UNCHANGED <<cleanupInterval, closeAllPc, visited>>
  /\ UNCHANGED reqVars
  /\ UNCHANGED pureVars

\* closeAll() up to its first await: with an empty pool it runs to its end
CloseAllStart ==
  /\ closeAllPc = "idle"
  /\ IF DOMAIN pools = {}
     THEN /\ cleanupInterval' = FALSE
          /\ UNCHANGED <<pools, clients, closeAllPc, visited>>
     ELSE \E k \in DOMAIN pools :
            /\ clients' = CloseClients(clients, {pools[k].client})
            /\ visited' = {k}
            /\ closeAllPc' = "loop"
            /\ UNCHANGED <<pools, cleanupInterval>>
  /\ UNCHANGED <<now, ticks>>
  /\ UNCHANGED reqVars
  /\ UNCHANGED pureVars

\* an awaited close() has resolved: the loop closes the next entry, or ends
CloseAllResume ==
  /\ closeAllPc = "loop"
  /\ IF (DOMAIN pools) \ visited # {}
     THEN \E k \in (DOMAIN pools) \ visited :
            /\ clients' = CloseClients(clients, {pools[k].client})
            /\ visited' = visited \cup {k}
            /\ UNCHANGED <<pools, cleanupInterval, closeAllPc>>
     ELSE /\ pools' = EmptyPools
          /\ cleanupInterval' = FALSE
          /\ closeAllPc' = "idle"
          /\ visited' = {}
          /\ UNCHANGED clients
  /\ UNCHANGED <<now, ticks>>
  /\ UNCHANGED reqVars
  /\ UNCHANGED pureVars

(***************************************************************************)
(* Initial state: the singleton pool has just been constructed.            *)
(***************************************************************************)
FoldIdle ==
  /\ samples = <<>>
  /\ foldIdx = 0
  /\ fieldMap = <<>>
  /\ fields = <<>>

PoolInit ==
  /\ pools = EmptyPools
  /\ cleanupInterval = TRUE
  /\ closeAllPc = "idle"
  /\ visited = {}
  /\ now = 0
  /\ ticks = 0
  /\ clients = <<>>

ReqInit ==
  /\ svc = [s \in Services |-> IdleSvc]
  /\ writes = {}
  /\ redis = NoResult
  /\ persisted = NoResult

\* detectRelationships has not been called
RelIdle ==
  /\ collections = <<>>
  /\ relIdx = 0
  /\ relationships = <<>>

\* no message has been received
QgIdle ==
  /\ message = <<>>
  /\ intent = NoResult
  /\ generated = NoResult

Init == PoolInit /\ ReqInit /\ FoldIdle /\ RelIdle /\ QgIdle

PoolUris == {URI_A, URI_B}

\* a single period, or a quiet stretch as long as the idle threshold
TickPeriods == {1, CONNECTION_POOL_IDLE \div SWEEP_INTERVAL}

Next ==
  \/ \E s \in Services, cs \in PoolUris : SessionStart(s, cs)
  \/ \E s \in Services : ConnectStart(s)
  \/ \E s \in Services, ok \in BOOLEAN : ConnectEnd(s, ok)
  \/ \E s \in Services : SessionEnd(s)
  \/ \E s \in Services : SessionFail(s)
  \/ \E s \in Services : Finish(s)
  \/ \E d \in TickPeriods : Tick(d)
  \/ CloseAllStart
  \/ CloseAllResume

Spec == Init /\ [][Next]_vars

(***************************************************************************)
(* Specifications over the pool alone.                                     *)
(***************************************************************************)
\* no getConnection call is suspended in `await client.connect()`
NoCallInFlight == \A s \in Services : svc[s].pc # "connecting"

\* getConnection and releaseConnection under any interleaving, nothing else
NextAcquire ==
  \/ \E s \in Services, cs \in PoolUris : SessionStart(s, cs)
  \/ \E s \in Services : ConnectStart(s)
  \/ \E s \in Services, ok \in BOOLEAN : ConnectEnd(s, ok)
  \/ \E s \in Services : SessionEnd(s)
  \/ \E s \in Services : SessionFail(s)
  \/ \E s \in Services : Finish(s)

SpecAcquire == Init /\ [][NextAcquire]_vars

\* the same calls when they do not overlap: no call starts, and no release runs,
\* while a getConnection is suspended; the cleanup timer runs at any time
NextSeq ==
  \/ \E s \in Services, cs \in PoolUris : SessionStart(s, cs)
  \/ \E s \in Services : NoCallInFlight /\ ConnectStart(s)
  \/ \E s \in Services, ok \in BOOLEAN : ConnectEnd(s, ok)
  \/ \E s \in Services : NoCallInFlight /\ SessionEnd(s)
  \/ \E s \in Services : SessionFail(s)
  \/ \E s \in Services : Finish(s)
  \/ \E d \in TickPeriods : Tick(d)

SpecSeq == Init /\ [][NextSeq]_vars

(***************************************************************************)
(* SchemaService.analyzeFields.  A value is [k, v, o]: k is what typeof,   *)
(* Array.isArray, instanceof Date and the null test tell of it, v the      *)
(* number or string it holds, o the entries <<key, value>> of an object in *)
(* their own order.  A field path is the sequence of its keys.             *)
(***************************************************************************)
Null      == [k |-> "null", v |-> 0, o |-> <<>>]
Undefined == [k |-> "undefined", v |-> 0, o |-> <<>>]
Num(n)    == [k |-> "number", v |-> n, o |-> <<>>]
Str(n)    == [k |-> "string", v |-> n, o |-> <<>>]
Arr       == [k |-> "array", v |-> 0, o |-> <<>>]
Date      == [k |-> "date", v |-> 0, o |-> <<>>]
Obj(es)   == [k |-> "object", v |-> 0, o |-> es]

\* obj[key]
Prop(value, key) ==
  IF value.k = "object" /\ \E i \in DOMAIN value.o : value.o[i][1] = key
  THEN value.o[CHOOSE i \in DOMAIN value.o : value.o[i][1] = key][2]
  ELSE Undefined

\* the truthiness of a value; a string value Str(0) is the empty string
Truthy(value) ==
  /\ value.k \notin {"null", "undefined"}
  /\ value.k \in {"number", "string"} => value.v # 0

getFieldType(value) ==
  IF value.k = "null" THEN "null"
  ELSE IF value.k = "undefined" THEN "undefined"
  ELSE IF value.k = "array" THEN "array"
  ELSE IF value.k = "date" THEN "date"
  ELSE IF value.k = "object"
       THEN IF Truthy(Prop(value, "_id")) THEN "objectId" ELSE "object"
  ELSE value.k

createFieldSchema(name, value) ==
  [name |-> name,
   type |-> getFieldType(value),
   required |-> value.k \notin {"null", "undefined"},
   isArray |-> value.k = "array",
   isNested |-> value.k = "object",
   sampleValues |-> <<>>]

updateFieldSchemaLastType(field, value) ==
  [field EXCEPT
     !.required = IF value.k \in {"null", "undefined"} THEN FALSE ELSE @,
     !.type = IF @ # getFieldType(value) /\ getFieldType(value) # "null"
              THEN getFieldType(value) ELSE @]

updateFieldSchema(field, value) ==
  [field EXCEPT
     !.required = IF value.k \in {"null", "undefined"} THEN FALSE ELSE @,
     !.type = IF @ # getFieldType(value) /\ getFieldType(value) # "null"
              THEN "mixed" ELSE @]

\* fieldMap.has(path), and the position of the entry
MapHas(fm, path) == \E i \in DOMAIN fm : fm[i].path = path

MapIndex(fm, path) == CHOOSE i \in DOMAIN fm : fm[i].path = path

\* the name extractFieldsFromDocument gives createFieldSchema for the entry
\* `key` found at `fieldPath`
FieldNameArg(key, fieldPath) == <<key>>

RECURSIVE extractFieldsFromDocument(_, _, _, _)
RECURSIVE ExtractEntries(_, _, _, _, _)
\* the loop over Object.entries(obj), from entry i on
ExtractEntries(obj, i, prefix, fm, depth) ==
  IF i > Len(obj.o) THEN fm
  ELSE LET key       == obj.o[i][1]
           value     == obj.o[i][2]
           fieldPath == prefix \o <<key>>
           fm1 == IF ~MapHas(fm, fieldPath)
                  THEN Append(fm, [path |-> fieldPath,
                                   field |-> createFieldSchema(FieldNameArg(key, fieldPath),
                                                               value)])
                  ELSE [fm EXCEPT ![MapIndex(fm, fieldPath)].field =
                                     updateFieldSchema(@, value)]
           fm2 == IF Truthy(value) /\ value.k = "object"
                  THEN extractFieldsFromDocument(value, fieldPath, fm1, depth + 1)
                  ELSE fm1
       IN  ExtractEntries(obj, i + 1, prefix, fm2, depth)

extractFieldsFromDocument(obj, prefix, fm, depth) ==
  IF depth > 3 THEN fm ELSE ExtractEntries(obj, 1, prefix, fm, depth)

\* path.split('.').reduce(...) from key i of the path on
RECURSIVE getNestedValueFrom(_, _, _)
getNestedValueFrom(current, path, i) ==
  IF i > Len(path) THEN current
  ELSE getNestedValueFrom(
         IF Truthy(current) /\ Prop(current, path[i]).k # "undefined"
         THEN Prop(current, path[i]) ELSE Undefined,
         path, i + 1)

getNestedValue(obj, path) == getNestedValueFrom(obj, path, 1)

\* the loop of extractSampleValuesForField from document i on
RECURSIVE SampleValuesFrom(_, _, _, _)
SampleValuesFrom(docs, fieldName, i, values) ==
  IF i > Len(docs) \/ Len(values) >= 3 THEN values
  ELSE LET value == getNestedValue(docs[i], fieldName)
       IN  SampleValuesFrom(docs, fieldName, i + 1,
                            IF value.k # "undefined" THEN Append(values, value) ELSE values)

extractSampleValuesForField(docs, fieldName) == SampleValuesFrom(docs, fieldName, 1, <<>>)

\* analyzeFields folds one more sampled document into fieldMap
FoldDoc ==
  /\ foldIdx < Len(samples)
  /\ fieldMap' = extractFieldsFromDocument(samples[foldIdx + 1], <<>>, fieldMap, 0)
  /\ foldIdx' = foldIdx + 1
  /\ UNCHANGED <<samples, fields>>
  /\ UNCHANGED poolVars
  /\ UNCHANGED reqVars
  /\ UNCHANGED relVars
  /\ UNCHANGED qgVars

\* every document is folded: the sample values are attached and the list returned
FoldFinish ==
  /\ foldIdx = Len(samples)
  /\ fields' = [i \in DOMAIN fieldMap |->
                  [fieldMap[i].field EXCEPT
                     !.sampleValues = extractSampleValuesForField(samples, fieldMap[i].field.name)]]
  /\ foldIdx' = foldIdx + 1
  /\ UNCHANGED <<samples, fieldMap>>
  /\ UNCHANGED poolVars
  /\ UNCHANGED reqVars
  /\ UNCHANGED relVars
  /\ UNCHANGED qgVars

(***************************************************************************)
(* Request handlers over the pool.                                         *)
(***************************************************************************)
ValidateUris == {URI_A, URI_NODB, URI_EMPTY}

\* request bodies of the chat query endpoint: <<queryType, query.pipeline>>
ChatRequests ==
  { <<"find", <<>> >>, <<"count", <<>> >>, <<"update", <<>> >>,
    <<"aggregate", <<"$match">> >>, <<"aggregate", <<"$match", "$out">> >> }

\* validateConnection and the chat query endpoint under any interleaving
NextRequests ==
  \/ \E s \in Services : ValidateStart(s, URI_A)
  \/ \E s \in Services, rq \in ChatRequests : ChatQueryStart(s, URI_A, rq[1], rq[2])
  \/ \E s \in Services : ConnectStart(s)
  \/ \E s \in Services, ok \in BOOLEAN : ConnectEnd(s, ok)
  \/ \E s \in Services : ValidateConnectFailed(s)
  \/ \E s \in Services : ValidateDbName(s)
  \/ \E s \in Services, ok \in BOOLEAN : ValidatePing(s, ok)
  \/ \E s \in Services, ok \in BOOLEAN : ValidateCreate(s, ok)
  \/ \E s \in Services, ok \in BOOLEAN : ValidateDrop(s, ok)
  \/ \E s \in Services : ChatQueryConnectFailed(s)
  \/ \E s \in Services : ChatQueryExec(s)
  \/ \E s \in Services, ok \in BOOLEAN : ChatQueryDone(s, ok)
  \/ \E s \in Services : Finish(s)

SpecRequests == Init /\ [][NextRequests]_vars

\* a validateConnection call whose result has not been handed on yet
ValidateActive(s) == svc[s].op = "validate"

\* no other request is inside validateConnection
MayStep(s) == \A t \in Services \ {s} : ~ValidateActive(t)

\* validateConnection calls that overlap no other pool operation: the calls on
\* the pool do not overlap, and other handlers may hold connections but take
\* no step while a validateConnection call runs
NextValidate ==
  \/ \E s \in Services, cs \in ValidateUris :
       NoCallInFlight /\ MayStep(s) /\ ValidateStart(s, cs)
  \/ \E s \in Services : MayStep(s) /\ SessionStart(s, URI_A)
  \/ \E s \in Services : NoCallInFlight /\ MayStep(s) /\ ConnectStart(s)
  \/ \E s \in Services, ok \in BOOLEAN : MayStep(s) /\ ConnectEnd(s, ok)
  \/ \E s \in Services : NoCallInFlight /\ MayStep(s) /\ SessionEnd(s)
  \/ \E s \in Services : MayStep(s) /\ SessionFail(s)
  \/ \E s \in Services : ValidateConnectFailed(s)
  \/ \E s \in Services : ValidateDbName(s)
  \/ \E s \in Services, ok \in BOOLEAN : ValidatePing(s, ok)
  \/ \E s \in Services, ok \in BOOLEAN : ValidateCreate(s, ok)
  \/ \E s \in Services, ok \in BOOLEAN : ValidateDrop(s, ok)
  \/ \E s \in Services : MayStep(s) /\ Finish(s)
  \/ \E d \in TickPeriods : Tick(d)

SpecValidate == Init /\ [][NextValidate]_vars

(***************************************************************************)
(* Claims about the request handlers.                                      *)
(***************************************************************************)
\* C1: no write operation (createCollection, dropCollection, an $out or $merge
\* stage) is ever issued against a connected database.
C1_NoWriteIssued == writes = {}

Returned(s) == svc[s].op = "validate" /\ svc[s].pc = "done"

\* what every validateConnection call satisfies: it does not throw, and when it
\* has returned it has released what it acquired, exactly once, and the key's
\* refCount is what it was before the call
C6_NoThrowAndReleased(s) ==
  /\ svc[s].op = "validate" => ~svc[s].threw
  /\ Returned(s) =>
       /\ svc[s].result.kind = "ConnectionInfo"
       /\ svc[s].acq <= 1
       /\ svc[s].rel = svc[s].acq
       /\ ~svc[s].isConnected
       /\ RefCountOf(pools, svc[s].cs) = svc[s].rcBefore

NextSchema ==
  \/ \E s \in Services : ExtractStart(s, URI_A)
  \/ \E s \in Services : RedisConnected(s)
  \/ \E s \in Services : ConnectStart(s)
  \/ \E s \in Services, ok \in BOOLEAN : ConnectEnd(s, ok)
  \/ \E s \in Services : ExtractConnectFailed(s)
  \/ \E s \in Services : ExtractListCall(s)
  \/ \E s \in Services, ok \in BOOLEAN : ExtractList(s, ok)
  \/ \E s \in Services, ok \in BOOLEAN : ExtractAnalyze(s, ok)
  \/ \E s \in Services, ok \in BOOLEAN : ExtractCacheSet(s, ok)
  \/ \E s \in Services, ok \in BOOLEAN : ExtractPersist(s, ok)
  \/ \E s \in Services : Finish(s)

SpecSchema == Init /\ [][NextSchema]_vars

\* a snapshot that holds every collection of the database
CompleteSnapshot(x, cs) == x.kind = "snapshot" /\ x.collections = DbCollections(cs)

\* C7: when a stage of an extraction fails, the extraction returns no snapshot
\* and has written nothing to the cache or the project, and it has released
\* the pool reference it acquired; no snapshot that is returned, cached or
\* persisted holds only a part of the collections.
C7_NoPartialSnapshot ==
  /\ redis.kind # "none" => CompleteSnapshot(redis, URI_A)
  /\ persisted.kind # "none" => CompleteSnapshot(persisted, URI_A)
  /\ \A s \in Services :
       svc[s].op = "extract" =>
         /\ svc[s].result.kind = "snapshot" => CompleteSnapshot(svc[s].result, svc[s].cs)
         /\ (svc[s].pc = "done" /\ svc[s].failedAt # "none") =>
              /\ svc[s].result.kind = "null"
              /\ svc[s].arg = <<>>
              /\ ~svc[s].isConnected
              /\ svc[s].rel = svc[s].acq

\* an extraction failed after it had analysed one of the two collections
C7_Witness ==
  \E s \in Services :
    /\ svc[s].op = "extract"
    /\ svc[s].pc = "done"
    /\ svc[s].failedAt = "analyze"
    /\ Len(svc[s].done) = 1
    /\ svc[s].acq = 1
    /\ svc[s].rel = 1

(***************************************************************************)
(* Claims about the pool.                                                  *)
(***************************************************************************)
KeyOf(s) == hashConnectionString(svc[s].cs)

\* the callers that acquired the key and have not released it
Holders(key) == {s \in Services : svc[s].isConnected /\ KeyOf(s) = key}

PoolKeys == {hashConnectionString(cs) : cs \in PoolUris}

\* C2: under any interleaving of getConnection calls, every client that was
\* opened for a key and is not closed is the client stored in the key's pool
\* entry, and the entry's refCount is the number of callers that acquired the
\* key and have not released it.
C2_OneLiveClientPerKey ==
  \A key \in PoolKeys :
    /\ \A c \in LiveClients(key) : key \in DOMAIN pools /\ pools[key].client = c
    /\ key \in DOMAIN pools => pools[key].refCount = Cardinality(Holders(key))

\* C3 (state part): with non-overlapping calls an entry's refCount is the
\* number of acquires not yet released, every holder's entry is pooled and
\* holds the holder's client, and only one client is live per key.
C3_RefCountIsHolders ==
  \A key \in PoolKeys :
    /\ key \in DOMAIN pools => pools[key].refCount = Cardinality(Holders(key))
    /\ \A s \in Holders(key) :
         /\ key \in DOMAIN pools
         /\ pools[key].client = svc[s].client
         /\ clients[svc[s].client].st = "open"
    /\ Cardinality(LiveClients(key)) <= 1

\* C3 (step part): the first getConnection opens a client and sets refCount to
\* 1; a further getConnection returns the pooled client and adds 1; a
\* releaseConnection subtracts 1, keeps the entry and does not close the client.
C3_Step ==
  \A s \in Services :
    LET key == KeyOf(s)
    IN  /\ (svc[s].pc = "connecting" /\ svc'[s].pc = "connected") =>
             /\ key \notin DOMAIN pools
             /\ key \in DOMAIN pools'
             /\ pools'[key].refCount = 1
             /\ pools'[key].client = svc'[s].client
             /\ clients'[svc'[s].client].st = "open"
        /\ (svc[s].pc = "connect" /\ svc'[s].pc = "connected") =>
             /\ key \in DOMAIN pools /\ key \in DOMAIN pools'
             /\ svc'[s].client = pools[key].client
             /\ pools'[key].client = pools[key].client
             /\ pools'[key].refCount = pools[key].refCount + 1
        /\ (svc[s].isConnected /\ ~svc'[s].isConnected) =>
             /\ key \in DOMAIN pools /\ key \in DOMAIN pools'
             /\ pools'[key].client = pools[key].client
             /\ pools'[key].refCount = pools[key].refCount - 1
             /\ clients'[pools[key].client].st = "open"

C3_SequentialRefCount == [](C3_RefCountIsHolders) /\ [][C3_Step]_vars

\* two acquires and two releases of one connection string have completed: one
\* client was ever opened, the entry is still pooled and its refCount is 0
C3_Witness ==
  /\ \A s \in Services :
       svc[s].pc = "done" /\ svc[s].cs = URI_A /\ svc[s].acq = 1 /\ svc[s].rel = 1
  /\ Len(clients) = 1
  /\ hashConnectionString(URI_A) \in DOMAIN pools
  /\ pools[hashConnectionString(URI_A)].refCount = 0

\* C4: a step of the cleanup timer removes a pool entry, and closes a client,
\* only if the entry's refCount is 0 and its idle time at the sweep exceeds
\* CONNECTION_POOL_IDLE.
C4_SweepStep ==
  (ticks' # ticks) =>
    /\ \A k \in DOMAIN pools :
         k \notin DOMAIN pools' =>
           /\ pools[k].refCount = 0
           /\ now' - pools[k].lastUsed > CONNECTION_POOL_IDLE
    /\ \A c \in DOMAIN clients :
         (clients[c].st # "closed" /\ clients'[c].st = "closed") =>
           \E k \in DOMAIN pools :
             /\ pools[k].client = c
             /\ k \notin DOMAIN pools'
             /\ pools[k].refCount = 0
    /\ \A k \in DOMAIN pools : pools[k].refCount # 0 => k \in DOMAIN pools'

C4_SweepOnlyIdleUnreferenced == [][C4_SweepStep]_vars

\* a sweep has run over an entry that was idle for longer than the threshold
\* and is still referenced, and the entry is still pooled
C4_Witness ==
  /\ cleanupInterval
  /\ ticks > 0
  /\ \E k \in DOMAIN pools :
       /\ pools[k].refCount > 0
       /\ now - pools[k].lastUsed > CONNECTION_POOL_IDLE

\* C5: a pool entry whose refCount is 0 is closed and removed by the sweep
\* once its idle time exceeds the threshold: after any timer period has
\* ended, no entry with refCount 0 is idle for longer than the threshold.
C5_IdleEntryIsSwept ==
  \A k \in DOMAIN pools :
    pools[k].refCount = 0 => now - pools[k].lastUsed <= CONNECTION_POOL_IDLE

(***************************************************************************)
(* analyzeFields over bounded samples.                                     *)
(***************************************************************************)
MaxSamples == 3

\* what a sampled document holds under its key "a"
TopValues == {Undefined, Null, Num(1), Str(1), Arr, Date}

\* and under its key "addr"
NestedValues ==
  {Undefined, Null, Obj(<< <<"a", Num(2)>> >>), Obj(<< <<"a", Str(2)>> >>),
   Obj(<< <<"_id", Num(3)>> >>)}

\* a document: a key whose value is Undefined here is absent from the document
Doc(a, addr) ==
  Obj((IF a.k = "undefined" THEN <<>> ELSE << <<"a", a>> >>)
      \o (IF addr.k = "undefined" THEN <<>> ELSE << <<"addr", addr>> >>))

Docs == {Doc(a, addr) : a \in TopValues, addr \in NestedValues}

SampleSets == UNION {[1 .. n -> Docs] : n \in 0 .. MaxSamples}

FoldInit ==
  /\ samples \in SampleSets
  /\ foldIdx = 0
  /\ fieldMap = <<>>
  /\ fields = <<>>

InitFold == PoolInit /\ ReqInit /\ FoldInit /\ RelIdle /\ QgIdle

NextFold == FoldDoc \/ FoldFinish

SpecFold == InitFold /\ [][NextFold]_vars

Finished == foldIdx = Len(samples) + 1

\* the paths of the fields a document holds, and the value at a path (own
\* definitions of the claims, not the code's)
ValueAt(doc, path) ==
  IF Len(path) = 1 THEN Prop(doc, path[1])
  ELSE Prop(Prop(doc, path[1]), path[2])

Present(doc, path) == ValueAt(doc, path).k # "undefined"

FoldedDocs == 1 .. (IF foldIdx > Len(samples) THEN Len(samples) ELSE foldIdx)

TypeTags ==
  {"null", "undefined", "array", "date", "objectId", "object", "mixed",
   "string", "number", "boolean", "bigint", "symbol"}

\* C8: after the fold a field is required only if every sampled document held
\* it with a non-null value.
C8_RequiredOnlyIfEverywhere ==
  Finished =>
    \A i \in DOMAIN fieldMap :
      fields[i].required =>
        \A d \in DOMAIN samples :
          ValueAt(samples[d], fieldMap[i].path).k \notin {"undefined", "null"}

\* C9 (state part): every type is one of the fixed tags, and a field whose
\* values in two folded documents have different non-null types is mixed.
C9_TagsAndMixed ==
  \A i \in DOMAIN fieldMap :
    /\ fieldMap[i].field.type \in TypeTags
    /\ Finished => fields[i].type = fieldMap[i].field.type
    /\ \A d1, d2 \in FoldedDocs :
         LET v1 == ValueAt(samples[d1], fieldMap[i].path)
             v2 == ValueAt(samples[d2], fieldMap[i].path)
         IN  (/\ Present(samples[d1], fieldMap[i].path)
              /\ Present(samples[d2], fieldMap[i].path)
              /\ getFieldType(v1) # "null"
              /\ getFieldType(v2) # "null"
              /\ getFieldType(v1) # getFieldType(v2))
             => fieldMap[i].field.type = "mixed"

\* C9 (step part): once a field is mixed, folding further documents leaves it mixed.
C9_MixedStays ==
  \A i \in DOMAIN fieldMap :
    fieldMap[i].field.type = "mixed" =>
      /\ i \in DOMAIN fieldMap'
      /\ fieldMap'[i].path = fieldMap[i].path
      /\ fieldMap'[i].field.type = "mixed"

C9_TypeTags == [](C9_TagsAndMixed) /\ [][C9_MixedStays]_vars

\* three documents are folded; the field a was a number, then a string, then
\* a number again, and is mixed
C9_Witness ==
  /\ Finished
  /\ Len(samples) = 3
  /\ ValueAt(samples[1], <<"a">>) = Num(1)
  /\ ValueAt(samples[2], <<"a">>) = Str(1)
  /\ ValueAt(samples[3], <<"a">>) = Num(1)
  /\ \E i \in DOMAIN fields : fieldMap[i].path = <<"a">> /\ fields[i].type = "mixed"

\* the values found at a path in the first documents that hold the path, three
\* at most
RECURSIVE ValuesAtPath(_, _, _, _)
ValuesAtPath(docs, path, i, values) ==
  IF i > Len(docs) \/ Len(values) >= 3 THEN values
  ELSE ValuesAtPath(docs, path, i + 1,
                    IF Present(docs[i], path) THEN Append(values, ValueAt(docs[i], path))
                    ELSE values)

\* C10: every FieldSchema carries its full path as its name, no two entries of
\* a collection share a name, and the sampleValues of a field are the values
\* found at the field's own path.
C10_NameIsFullPath ==
  Finished =>
    /\ \A i \in DOMAIN fields :
         /\ fields[i].name = fieldMap[i].path
         /\ fields[i].sampleValues = ValuesAtPath(samples, fieldMap[i].path, 1, <<>>)
    /\ \A i, j \in DOMAIN fields : fields[i].name = fields[j].name => i = j

(***************************************************************************)
(* Strings.  A string of the program is the sequence of its characters,    *)
(* each a one-character string; concatenation is \o.                       *)
(***************************************************************************)
LowerLetters == <<"a", "b", "c", "d", "e", "f", "g", "h", "i", "j", "k", "l", "m", "n", "o", "p", "q", "r", "s", "t", "u", "v", "w", "x", "y", "z">>

UpperLetters == <<"A", "B", "C", "D", "E", "F", "G", "H", "I", "J", "K", "L", "M", "N", "O", "P", "Q", "R", "S", "T", "U", "V", "W", "X", "Y", "Z">>

Digits == {"0", "1", "2", "3", "4", "5", "6", "7", "8", "9"}

Letters == {LowerLetters[i] : i \in DOMAIN LowerLetters} \cup {UpperLetters[i] : i \in DOMAIN UpperLetters}

\* \w of a regular expression
IsWordChar(c) == c \in Letters \cup Digits \cup {"_"}

\* \s of a regular expression, for the white space the messages hold
IsSpace(c) == c = " "

\* String.prototype.endsWith
EndsWith(str, suffix) ==
  /\ Len(str) >= Len(suffix)
  /\ SubSeq(str, Len(str) - Len(suffix) + 1, Len(str)) = suffix

\* str.slice(0, -n)
DropLast(str, n) == SubSeq(str, 1, Len(str) - n)

(***************************************************************************)
(* SchemaService.detectRelationships.  A CollectionSchema is [name,        *)
(* fields], a field [name, type, isArray]; the null of a collection lookup *)
(* is the empty sequence, which is as falsy as the empty string.           *)
(***************************************************************************)
\* the alternatives of (id|Id|ID|ref|Ref|REF), each after its underscore
RefSuffixes ==
  {<<"_", "i", "d">>, <<"_", "I", "d">>, <<"_", "I", "D">>, <<"_", "r", "e", "f">>, <<"_", "R", "e", "f">>, <<"_", "R", "E", "F">>}

\* REGEX_PATTERNS.COLLECTION_REFERENCE.test(name)
COLLECTION_REFERENCE(name) ==
  /\ \E suffix \in RefSuffixes : EndsWith(name, suffix) /\ Len(name) > Len(suffix)
  /\ name[1] \in Letters \cup {"_"}
  /\ \A i \in DOMAIN name : IsWordChar(name[i])

\* fieldName.replace(/_(id|Id|ID|ref|Ref|REF)$/, '')
StripRefSuffix(name) ==
  IF \E suffix \in RefSuffixes : EndsWith(name, suffix)
  THEN DropLast(name, Len(CHOOSE suffix \in RefSuffixes : EndsWith(name, suffix)))
  ELSE name

extractReferencedCollection(fieldName, collectionNames) ==
  LET baseName == StripRefSuffix(fieldName)
      plural   == baseName \o <<"s">>
      singular == IF EndsWith(baseName, <<"s">>) THEN DropLast(baseName, 1) ELSE baseName
  IN  IF baseName \in collectionNames THEN baseName
      ELSE IF plural \in collectionNames THEN plural
      ELSE IF singular \in collectionNames THEN singular
      ELSE <<>>

\* the patterns of inferCollectionFromFieldName, in their order: /^(.+)Id$/ ...
InferSuffixes == <<<<"I", "d">>, <<"_", "i", "d">>, <<"R", "e", "f">>, <<"_", "r", "e", "f">>>>

\* name.match(/^(.+)<suffix>$/)
MatchesInfer(name, suffix) == EndsWith(name, suffix) /\ Len(name) > Len(suffix)

inferCollectionFromFieldName(fieldName, collectionNames) ==
  IF \E i \in DOMAIN InferSuffixes : MatchesInfer(fieldName, InferSuffixes[i])
  THEN LET first == CHOOSE i \in DOMAIN InferSuffixes :
                      /\ MatchesInfer(fieldName, InferSuffixes[i])
                      /\ \A j \in 1 .. (i - 1) : ~MatchesInfer(fieldName, InferSuffixes[j])
       IN  extractReferencedCollection(DropLast(fieldName, Len(InferSuffixes[first])),
                                       collectionNames)
  ELSE <<>>

Relationship(from, to, field) ==
  [from |-> from, to |-> to, field |-> field.name,
   type |-> IF field.isArray THEN "one-to-many" ELSE "one-to-one",
   direction |-> "forward"]

\* the two pushes of the loop body for one field
FieldRelationships(from, field, collectionNames) ==
  LET referencedCollection == extractReferencedCollection(field.name, collectionNames)
      possibleCollection   == inferCollectionFromFieldName(field.name, collectionNames)
  IN  (IF COLLECTION_REFERENCE(field.name) /\ referencedCollection # <<>>
       THEN <<Relationship(from, referencedCollection, field)>> ELSE <<>>)
      \o
      (IF field.type = "objectId" /\ field.name # <<"_", "i", "d">> /\ possibleCollection # <<>>
       THEN <<Relationship(from, possibleCollection, field)>> ELSE <<>>)

\* the inner loop over collection.fields, from field i on
RECURSIVE CollectionRelationships(_, _, _)
CollectionRelationships(collection, i, collectionNames) ==
  IF i > Len(collection.fields) THEN <<>>
  ELSE FieldRelationships(collection.name, collection.fields[i], collectionNames)
       \o CollectionRelationships(collection, i + 1, collectionNames)

\* new Set(collections.map(c => c.name))
CollectionNames(cols) == {cols[i].name : i \in DOMAIN cols}

\* `${rel.from}-${rel.to}-${rel.field}`
RelKey(rel) == rel.from \o <<"-">> \o rel.to \o <<"-">> \o rel.field

\* the loop of deduplicateRelationships from relationship i on
RECURSIVE DedupFrom(_, _, _, _)
DedupFrom(rels, i, seen, unique) ==
  IF i > Len(rels) THEN unique
  ELSE IF RelKey(rels[i]) \in seen
       THEN DedupFrom(rels, i + 1, seen, unique)
       ELSE DedupFrom(rels, i + 1, seen \cup {RelKey(rels[i])}, Append(unique, rels[i]))

deduplicateRelationships(rels) == DedupFrom(rels, 1, {}, <<>>)

\* the outer loop from collection i on
RECURSIVE PushedFrom(_, _)
PushedFrom(cols, i) ==
  IF i > Len(cols) THEN <<>>
  ELSE CollectionRelationships(cols[i], 1, CollectionNames(cols)) \o PushedFrom(cols, i + 1)

detectRelationships(cols) == deduplicateRelationships(PushedFrom(cols, 1))

\* one round of the outer loop: the relationships of the next collection are pushed
DetectVisit ==
  /\ relIdx < Len(collections)
  /\ relationships' = relationships
                        \o CollectionRelationships(collections[relIdx + 1], 1,
                                                   CollectionNames(collections))
  /\ relIdx' = relIdx + 1
  /\ UNCHANGED collections
  /\ UNCHANGED poolVars
  /\ UNCHANGED reqVars
  /\ UNCHANGED foldVars
  /\ UNCHANGED qgVars

\* the loop is over: deduplicateRelationships, return
DetectReturn ==
  /\ relIdx = Len(collections)
  /\ relationships' = deduplicateRelationships(relationships)
  /\ relIdx' = relIdx + 1
  /\ UNCHANGED collections
  /\ UNCHANGED poolVars
  /\ UNCHANGED reqVars
  /\ UNCHANGED foldVars
  /\ UNCHANGED qgVars

(***************************************************************************)
(* detectRelationships over bounded CollectionSchema lists.                *)
(***************************************************************************)
MaxCollections == 3

Field(name, type, isArray) == [name |-> name, type |-> type, isArray |-> isArray]

Collection(name, fs) == [name |-> name, fields |-> fs]

\* the collections a snapshot may hold
CandidateCollections ==
  {Collection(<<"u", "s", "e", "r", "s">>, <<Field(<<"_", "i", "d">>, "objectId", FALSE)>>),
   Collection(<<"o", "r", "d", "e", "r", "s">>, <<Field(<<"u", "s", "e", "r", "I", "d">>, "objectId", FALSE),
                                  Field(<<"t", "o", "t", "a", "l">>, "number", FALSE)>>),
   Collection(<<"o", "r", "d", "e", "r", "s">>, <<Field(<<"u", "s", "e", "r", "_", "i", "d">>, "array", TRUE),
                                  Field(<<"u", "s", "e", "r", "_", "i", "d">>, "objectId", FALSE)>>),
   Collection(<<"u", "s", "e", "r">>, <<Field(<<"o", "r", "d", "e", "r", "s", "R", "e", "f">>, "objectId", TRUE),
                                Field(<<"a", "u", "t", "h", "o", "r", "I", "d">>, "objectId", FALSE)>>),
   Collection(<<"p", "o", "s", "t", "s">>, <<Field(<<"u", "s", "e", "r", "_", "i", "d", "I", "d">>, "objectId", FALSE),
                                 Field(<<"o", "r", "d", "e", "r", "_", "R", "E", "F">>, "string", FALSE)>>),
   Collection(<<"b">>, <<Field(<<"b", "-", "b", "I", "d">>, "objectId", FALSE)>>),
   Collection(<<"b", "-", "b">>, <<>>),
   Collection(<<"b", "-", "b", "-", "b">>, <<Field(<<"b", "I", "d">>, "objectId", TRUE)>>)}

\* lists of collections with distinct names, as listCollections gives them
CollectionLists ==
  {cols \in UNION {[1 .. n -> CandidateCollections] : n \in 0 .. MaxCollections} :
     \A i, j \in DOMAIN cols : cols[i].name = cols[j].name => i = j}

InitRel ==
  /\ PoolInit /\ ReqInit /\ FoldIdle /\ QgIdle
  /\ collections \in CollectionLists
  /\ relIdx = 0
  /\ relationships = <<>>

NextRel == DetectVisit \/ DetectReturn

SpecRel == InitRel /\ [][NextRel]_vars

Detected == relIdx = Len(collections) + 1

\* the (from, to, field, type) tuples of a relationship list
Tuples(rels) == {<<rels[i].from, rels[i].to, rels[i].field, rels[i].type>> : i \in DOMAIN rels}

\* the permutations of a list
Reorderings(cols) ==
  {[i \in DOMAIN cols |-> cols[f[i]]] :
     f \in {g \in [DOMAIN cols -> DOMAIN cols] : \A i, j \in DOMAIN cols : g[i] = g[j] => i = j}}

\* C11: for every permutation of the CollectionSchema list detectRelationships
\* returns the same set of (from, to, field, type) tuples, and no result holds
\* two relationships with the same (from, to, field).
C11_OrderIndependent ==
  Detected =>
    /\ relationships = detectRelationships(collections)
    /\ \A i, j \in DOMAIN relationships :
         (/\ relationships[i].from = relationships[j].from
          /\ relationships[i].to = relationships[j].to
          /\ relationships[i].field = relationships[j].field) => i = j
    /\ \A perm \in Reorderings(collections) :
         Tuples(detectRelationships(perm)) = Tuples(relationships)

\* the suffixes <base>Id, <base>_id, <base>Ref, <base>_ref of the claim, the
\* base of a field name and the collection the claim resolves the base to
ReferenceSuffixes == {<<"I", "d">>, <<"_", "i", "d">>, <<"R", "e", "f">>, <<"_", "r", "e", "f">>}

NamedAsReference(name) ==
  \E suffix \in ReferenceSuffixes : EndsWith(name, suffix) /\ Len(name) > Len(suffix)

BaseOf(name) ==
  DropLast(name, Len(CHOOSE suffix \in ReferenceSuffixes : EndsWith(name, suffix)))

TargetOf(base, names) ==
  IF base \in names THEN base
  ELSE IF (base \o <<"s">>) \in names THEN base \o <<"s">>
  ELSE IF EndsWith(base, <<"s">>) /\ DropLast(base, 1) \in names THEN DropLast(base, 1)
  ELSE <<>>

\* C12: a field that is not _id, has type objectId and is named <base>Id,
\* <base>_id, <base>Ref or <base>_ref gives an edge from its collection to
\* <base>, else <base>s, else <base> without a trailing s; the edge is
\* one-to-many exactly when the field is array-valued, one-to-one otherwise,
\* and forward; there is no edge when none of the three names is a collection.
C12_ReferenceEdges ==
  Detected =>
    \A c \in DOMAIN collections :
      \A k \in DOMAIN collections[c].fields :
        LET field  == collections[c].fields[k]
            target == TargetOf(BaseOf(field.name), CollectionNames(collections))
            edges  == {i \in DOMAIN relationships :
                         /\ relationships[i].from = collections[c].name
                         /\ relationships[i].field = field.name}
        IN  (/\ field.type = "objectId"
             /\ field.name # <<"_", "i", "d">>
             /\ NamedAsReference(field.name))
            => IF target = <<>> THEN edges = {}
               ELSE /\ \E i \in edges : relationships[i].to = target
                    /\ \A i \in edges :
                         relationships[i].to = target =>
                           /\ relationships[i].direction = "forward"
                           /\ relationships[i].type =
                                (IF field.isArray THEN "one-to-many" ELSE "one-to-one")

(***************************************************************************)
(* Claims about the schema cache.                                          *)
(***************************************************************************)
\* C13: when the store holds a snapshot of the project (stored by an earlier
\* extractAndCacheSchema, not expired), a later extractAndCacheSchema issued
\* by a handler returns that snapshot and does not connect to the database.
C13_CacheHitNoDatabaseIO ==
  \A s \in Services :
    (svc[s].op = "extract" /\ svc[s].stored.kind = "snapshot") =>
      /\ svc[s].pc = "done"
      /\ svc[s].result = svc[s].stored
      /\ svc[s].acq = 0

\* what C14 says of every state: nothing is raised, and an extraction no
\* stage of which failed returns the freshly extracted snapshot
C14_FreshSnapshotReturned ==
  \A s \in Services :
    svc[s].op = "extract" =>
      /\ ~svc[s].threw
      /\ (svc[s].pc = "done" /\ svc[s].failedAt = "none") =>
           CompleteSnapshot(svc[s].result, svc[s].cs)

\* what C14 says of every step: a get on a store that is not connected is a
\* miss (the extraction goes on to connect), a set on it leaves the store as
\* it was and the call goes on to persist
C14_Step ==
  \A s \in Services :
    /\ (svc[s].pc = "idle" /\ svc'[s].op = "extract") => svc'[s].pc = "connect"
    /\ (svc[s].op = "extract" /\ svc[s].pc = "cacheSet" /\ svc'[s].pc # "cacheSet"
        /\ ~svc[s].cacheOn) =>
         (redis' = redis /\ svc'[s].pc = "persist")

\* C14: with the cache store not connected, or failing during the operation,
\* get gives a miss and set has no effect, neither raises, and
\* extractAndCacheSchema still returns the freshly extracted snapshot.
C14_CacheUnavailableTolerated == [](C14_FreshSnapshotReturned) /\ [][C14_Step]_vars

\* an extraction has returned its snapshot with a cache client that never
\* connected, nothing being cached
C14_Witness ==
  \E s \in Services :
    /\ svc[s].op = "extract"
    /\ svc[s].pc = "done"
    /\ ~svc[s].cacheOn
    /\ Len(svc[s].arg) >= 1
    /\ svc[s].arg[1] = "notCached"
    /\ redis.kind = "none"
    /\ CompleteSnapshot(svc[s].result, svc[s].cs)

(***************************************************************************)
(* QueryGeneratorService: the text helpers of parseIntent.  The messages   *)
(* hold single spaces as their only white space.                           *)
(***************************************************************************)
\* c.toLowerCase()
LowerChar(c) ==
  IF \E i \in DOMAIN UpperLetters : UpperLetters[i] = c
  THEN LowerLetters[CHOOSE i \in DOMAIN UpperLetters : UpperLetters[i] = c]
  ELSE c

\* str.toLowerCase()
ToLowerCase(str) == [i \in DOMAIN str |-> LowerChar(str[i])]

\* whether pat stands in str at position p
MatchesAt(str, p, pat) ==
  /\ p >= 1
  /\ p + Len(pat) - 1 <= Len(str)
  /\ \A i \in DOMAIN pat : str[p + i - 1] = pat[i]

\* str.includes(pat)
Includes(str, pat) == \E p \in 1 .. (Len(str) + 1) : MatchesAt(str, p, pat)

\* a literal of a case-insensitive pattern at position p
MatchesAtNoCase(str, p, pat) ==
  /\ p >= 1
  /\ p + Len(pat) - 1 <= Len(str)
  /\ \A i \in DOMAIN pat : LowerChar(str[p + i - 1]) = pat[i]

\* the position after the run of white space that starts at p (\s*)
RECURSIVE SkipSpaces(_, _)
SkipSpaces(str, p) ==
  IF p <= Len(str) /\ IsSpace(str[p]) THEN SkipSpaces(str, p + 1) ELSE p

\* the position after the run of \w that starts at p (\w+ when it is > p)
RECURSIVE WordEnd(_, _)
WordEnd(str, p) ==
  IF p <= Len(str) /\ IsWordChar(str[p]) THEN WordEnd(str, p + 1) ELSE p

\* the position after the run of [^\s,] that starts at p
RECURSIVE ValueEnd(_, _)
ValueEnd(str, p) ==
  IF p <= Len(str) /\ ~IsSpace(str[p]) /\ str[p] # "," THEN ValueEnd(str, p + 1) ELSE p

\* the position after the run of \d that starts at p
RECURSIVE DigitsEnd(_, _)
DigitsEnd(str, p) ==
  IF p <= Len(str) /\ str[p] \in Digits THEN DigitsEnd(str, p + 1) ELSE p

DigitValue(c) == CHOOSE n \in 0 .. 9 : ToString(n) = c

\* parseInt(digits, 10) and Number(digits) of a run of digits
RECURSIVE ParseDigits(_, _)
ParseDigits(digits, acc) ==
  IF digits = <<>> THEN acc
  ELSE ParseDigits(Tail(digits), acc * 10 + DigitValue(Head(digits)))

NoMatch == [ok |-> FALSE, field |-> <<>>, value |-> <<>>, end |-> 0]

\* the alternatives of (?:is|equals?|=), each followed by white space
WhereOperators == <<<<"i", "s">>, <<"e", "q", "u", "a", "l", "s">>, <<"e", "q", "u", "a", "l">>, <<"=">>>>

\* /where\s+(\w+)\s+(?:is|equals?|=)\s+([^\s,]+)/i with its first character at p
WhereMatchAt(str, p) ==
  LET fieldStart == SkipSpaces(str, p + 5)
      fieldEnd   == WordEnd(str, fieldStart)
      opStart    == SkipSpaces(str, fieldEnd)
      ops        == {i \in DOMAIN WhereOperators :
                       /\ MatchesAtNoCase(str, opStart, WhereOperators[i])
                       /\ opStart + Len(WhereOperators[i]) <= Len(str)
                       /\ IsSpace(str[opStart + Len(WhereOperators[i])])}
      op         == WhereOperators[CHOOSE i \in ops : \A j \in ops : i <= j]
      valueStart == SkipSpaces(str, opStart + Len(op))
      valueEnd   == ValueEnd(str, valueStart)
  IN  IF /\ MatchesAtNoCase(str, p, <<"w", "h", "e", "r", "e">>)
         /\ fieldStart > p + 5
         /\ fieldEnd > fieldStart
         /\ opStart > fieldEnd
         /\ ops # {}
         /\ valueEnd > valueStart
      THEN [ok |-> TRUE, field |-> SubSeq(str, fieldStart, fieldEnd - 1),
            value |-> SubSeq(str, valueStart, valueEnd - 1), end |-> valueEnd]
      ELSE NoMatch

\* /(\w+)\s*[:=]\s*([^\s,]+)/ with its first character at p
EqMatchAt(str, p) ==
  LET fieldEnd   == WordEnd(str, p)
      opStart    == SkipSpaces(str, fieldEnd)
      valueStart == SkipSpaces(str, opStart + 1)
      valueEnd   == ValueEnd(str, valueStart)
  IN  IF /\ fieldEnd > p
         /\ opStart <= Len(str)
         /\ str[opStart] \in {":", "="}
         /\ valueEnd > valueStart
      THEN [ok |-> TRUE, field |-> SubSeq(str, p, fieldEnd - 1),
            value |-> SubSeq(str, valueStart, valueEnd - 1), end |-> valueEnd]
      ELSE NoMatch

(***************************************************************************)
(* QueryGeneratorService.extractFilters.  A filter value is [k, s, n]: a   *)
(* boolean (n = 1 for true), a number n, or the string s.  filters is the  *)
(* sequence of its [key, value] in insertion order.                        *)
(***************************************************************************)
BoolValue(b) == [k |-> "boolean", s |-> <<>>, n |-> IF b THEN 1 ELSE 0]

NumberValue(n) == [k |-> "number", s |-> <<>>, n |-> n]

StringValue(str) == [k |-> "string", s |-> str, n |-> 0]

\* the coercion of a matched value: true, false, a number, else the text; a
\* text is a number here when it is a run of digits
ParseValue(fieldValue) ==
  IF ToLowerCase(fieldValue) = <<"t", "r", "u", "e">> THEN BoolValue(TRUE)
  ELSE IF ToLowerCase(fieldValue) = <<"f", "a", "l", "s", "e">> THEN BoolValue(FALSE)
  ELSE IF DigitsEnd(fieldValue, 1) > Len(fieldValue) THEN NumberValue(ParseDigits(fieldValue, 0))
  ELSE StringValue(fieldValue)

HasKey(filters, key) == \E i \in DOMAIN filters : filters[i].key = key

KeyIndex(filters, key) == CHOOSE i \in DOMAIN filters : filters[i].key = key

\* filters[key] = value
SetKey(filters, key, value) ==
  IF HasKey(filters, key)
  THEN [filters EXCEPT ![KeyIndex(filters, key)].value = value]
  ELSE Append(filters, [key |-> key, value |-> value])

\* the truthiness of filters[key]: false, 0 and a missing key are falsy
TruthyKey(filters, key) ==
  /\ HasKey(filters, key)
  /\ LET value == filters[KeyIndex(filters, key)].value
     IN  IF value.k = "string" THEN value.s # <<>> ELSE value.n # 0

\* the first position >= p at which wherePattern matches, 0 when there is none
RECURSIVE WhereSearch(_, _)
WhereSearch(str, p) ==
  IF p > Len(str) THEN 0
  ELSE IF WhereMatchAt(str, p).ok THEN p
  ELSE WhereSearch(str, p + 1)

\* the first position >= p at which eqPattern matches, 0 when there is none
RECURSIVE EqSearch(_, _)
EqSearch(str, p) ==
  IF p > Len(str) THEN 0
  ELSE IF EqMatchAt(str, p).ok THEN p
  ELSE EqSearch(str, p + 1)

\* the first while loop, from lastIndex p on
RECURSIVE WherePass(_, _, _)
WherePass(str, p, filters) ==
  IF WhereSearch(str, p) = 0 THEN filters
  ELSE LET match == WhereMatchAt(str, WhereSearch(str, p))
       IN  WherePass(str, match.end, SetKey(filters, match.field, ParseValue(match.value)))

\* the guard `!filters[fieldName]` of the second loop
EqPassAssigns(filters, key) == ~TruthyKey(filters, key)

\* the second while loop, from lastIndex p on
RECURSIVE EqPass(_, _, _)
EqPass(str, p, filters) ==
  IF EqSearch(str, p) = 0 THEN filters
  ELSE LET match == EqMatchAt(str, EqSearch(str, p))
       IN  EqPass(str, match.end,
                  IF EqPassAssigns(filters, match.field)
                  THEN SetKey(filters, match.field, ParseValue(match.value))
                  ELSE filters)

extractFilters(msg) == EqPass(msg, 1, WherePass(msg, 1, <<>>))

(***************************************************************************)
(* QueryGeneratorService.extractLimit.                                     *)
(***************************************************************************)
LimitWords == {<<"l", "i", "m", "i", "t">>, <<"t", "o", "p">>, <<"f", "i", "r", "s", "t">>}

\* /(?:limit|top|first)\s+(\d+)/i with its first character at p: the
\* position of the digits and the position after them, <<0, 0>> for no match
LimitMatchAt(str, p) ==
  IF \E w \in LimitWords :
       /\ MatchesAtNoCase(str, p, w)
       /\ SkipSpaces(str, p + Len(w)) > p + Len(w)
       /\ DigitsEnd(str, SkipSpaces(str, p + Len(w))) > SkipSpaces(str, p + Len(w))
  THEN LET w == CHOOSE w \in LimitWords : MatchesAtNoCase(str, p, w)
           digitsStart == SkipSpaces(str, p + Len(w))
       IN  <<digitsStart, DigitsEnd(str, digitsStart)>>
  ELSE <<0, 0>>

\* undefined, as a limit
NoLimit == -1

MaxLimit == 1000

Min(a, b) == IF a <= b THEN a ELSE b

\* the first position >= p at which limitPattern matches, 0 when there is none
RECURSIVE LimitSearch(_, _)
LimitSearch(str, p) ==
  IF p > Len(str) THEN 0
  ELSE IF LimitMatchAt(str, p)[1] # 0 THEN p
  ELSE LimitSearch(str, p + 1)

extractLimit(msg) ==
  IF LimitSearch(msg, 1) # 0
  THEN LET m == LimitMatchAt(msg, LimitSearch(msg, 1))
       IN  Min(ParseDigits(SubSeq(msg, m[1], m[2] - 1), 0), MaxLimit)
  ELSE NoLimit

(***************************************************************************)
(* QueryGeneratorService.extractFields.                                    *)
(***************************************************************************)
ShowWords == {<<"s", "h", "o", "w">>, <<"g", "e", "t">>, <<"d", "i", "s", "p", "l", "a", "y">>, <<"s", "e", "l", "e", "c", "t">>}

\* (?:\s+from|\s+in|$) at position q
ShowTerminates(str, q) ==
  \/ q > Len(str)
  \/ /\ IsSpace(str[q])
     /\ \/ MatchesAtNoCase(str, SkipSpaces(str, q), <<"f", "r", "o", "m">>)
        \/ MatchesAtNoCase(str, SkipSpaces(str, q), <<"i", "n">>)

\* the last position of the lazy group ([^,]+?) that starts at g, 0 when the
\* group cannot be matched from g
ShowGroupEnd(str, g) ==
  LET ends == {e \in g .. Len(str) :
                 /\ \A i \in g .. e : str[i] # ","
                 /\ ShowTerminates(str, e + 1)}
  IN  IF ends = {} THEN 0 ELSE CHOOSE e \in ends : \A f \in ends : e <= f

\* showPattern with its first character at p: <<first, last>> position of the
\* group, <<0, 0>> for no match; (?:me\s+)? is tried before it is skipped
ShowMatchAt(str, p) ==
  IF \E w \in ShowWords : MatchesAtNoCase(str, p, w) /\ SkipSpaces(str, p + Len(w)) > p + Len(w)
  THEN LET w  == CHOOSE w \in ShowWords : MatchesAtNoCase(str, p, w)
           g0 == SkipSpaces(str, p + Len(w))
           g1 == SkipSpaces(str, g0 + 2)
       IN  IF /\ MatchesAtNoCase(str, g0, <<"m", "e">>)
              /\ g1 > g0 + 2
              /\ ShowGroupEnd(str, g1) # 0
           THEN <<g1, ShowGroupEnd(str, g1)>>
           ELSE IF ShowGroupEnd(str, g0) # 0 THEN <<g0, ShowGroupEnd(str, g0)>>
           ELSE <<0, 0>>
  ELSE <<0, 0>>

\* message.match(showPattern)[1].toLowerCase(), <<>> when there is no match
ShowFieldPart(msg) ==
  IF \E p \in DOMAIN msg : ShowMatchAt(msg, p)[1] # 0
  THEN LET p == CHOOSE p \in DOMAIN msg :
                  /\ ShowMatchAt(msg, p)[1] # 0
                  /\ \A q \in 1 .. (p - 1) : ShowMatchAt(msg, q)[1] = 0
           m == ShowMatchAt(msg, p)
       IN  ToLowerCase(SubSeq(msg, m[1], m[2]))
  ELSE <<>>

\* fieldNames.forEach: the names the field part includes, in schema order
RECURSIVE SelectNames(_, _, _)
SelectNames(names, i, fieldPart) ==
  IF i > Len(names) THEN <<>>
  ELSE (IF Includes(fieldPart, ToLowerCase(names[i])) THEN <<names[i]>> ELSE <<>>)
       \o SelectNames(names, i + 1, fieldPart)

\* schemaCache.collections.find(c => c.name === name): its position, 0 for none
FindCollection(schemaCache, name) ==
  IF \E i \in DOMAIN schemaCache : schemaCache[i].name = name
  THEN CHOOSE i \in DOMAIN schemaCache :
         schemaCache[i].name = name /\ \A j \in 1 .. (i - 1) : schemaCache[j].name # name
  ELSE 0

extractFields(msg, mentioned, schemaCache) ==
  IF mentioned = <<>> THEN <<>>
  ELSE IF FindCollection(schemaCache, mentioned[1]) = 0 THEN <<>>
  ELSE IF ShowFieldPart(msg) = <<>> THEN <<>>
  ELSE LET fs == schemaCache[FindCollection(schemaCache, mentioned[1])].fields
       IN  SelectNames([i \in DOMAIN fs |-> fs[i].name], 1, ShowFieldPart(msg))

(***************************************************************************)
(* QueryGeneratorService.calculateConfidence, in hundredths.               *)
(***************************************************************************)
BaseConfidence == 50
CollectionBonus == 30
FilterBonus == 15
TypeBonus == 15
FindBonus == 20
FullConfidence == 100

calculateConfidenceNoCap(type, mentioned, filters) ==
  BaseConfidence
    + (IF Len(mentioned) > 0 THEN CollectionBonus ELSE 0)
    + (IF Len(filters) > 0 THEN FilterBonus ELSE 0)
    + (IF type # "general" THEN TypeBonus ELSE 0)
    + (IF type = "find" /\ Len(mentioned) > 0 THEN FindBonus ELSE 0)

calculateConfidence(type, mentioned, filters) ==
  LET c1 == BaseConfidence + (IF Len(mentioned) > 0 THEN CollectionBonus ELSE 0)
      c2 == c1 + (IF Len(filters) > 0 THEN FilterBonus ELSE 0)
      c3 == c2 + (IF type # "general" THEN TypeBonus ELSE 0)
      c4 == IF type = "find" /\ Len(mentioned) > 0 THEN Min(c3 + FindBonus, FullConfidence) ELSE c3
  IN  Min(c4, FullConfidence)

(***************************************************************************)
(* QueryGeneratorService.parseIntent.                                      *)
(***************************************************************************)
CountWords == {<<"c", "o", "u", "n", "t">>, <<"h", "o", "w", " ", "m", "a", "n", "y">>}

AggregateWords == {<<"a", "g", "g", "r", "e", "g", "a", "t", "e">>, <<"g", "r", "o", "u", "p", " ", "b", "y">>}

FindWords ==
  {<<"f", "i", "n", "d">>,
   <<"s", "h", "o", "w">>,
   <<"g", "e", "t">>,
   <<"s", "e", "e", " ", "t", "h", "e", " ", "d", "a", "t", "a">>,
   <<"v", "i", "e", "w", " ", "d", "a", "t", "a">>,
   <<"p", "e", "e", "k">>,
   <<"l", "o", "o", "k", " ", "a", "t">>}

SchemaWords == {<<"s", "t", "r", "u", "c", "t", "u", "r", "e">>, <<"s", "c", "h", "e", "m", "a">>}

RelationshipWords == {<<"r", "e", "l", "a", "t", "i", "o", "n", "s", "h", "i", "p">>, <<"r", "e", "f", "e", "r", "e", "n", "c", "e">>}

IncludesAny(str, words) == \E w \in words : Includes(str, w)

IntentTypeFindFirst(lowerMessage) ==
  IF IncludesAny(lowerMessage, FindWords) THEN "find"
  ELSE IF IncludesAny(lowerMessage, CountWords) THEN "count"
  ELSE IF IncludesAny(lowerMessage, AggregateWords) THEN "aggregate"
  ELSE IF IncludesAny(lowerMessage, SchemaWords) THEN "schema"
  ELSE IF IncludesAny(lowerMessage, RelationshipWords) THEN "relationship"
  ELSE "general"

\* the if / else-if chain that detects the query type
IntentType(lowerMessage) ==
  IF IncludesAny(lowerMessage, CountWords) THEN "count"
  ELSE IF IncludesAny(lowerMessage, AggregateWords) THEN "aggregate"
  ELSE IF IncludesAny(lowerMessage, FindWords) THEN "find"
  ELSE IF IncludesAny(lowerMessage, SchemaWords) THEN "schema"
  ELSE IF IncludesAny(lowerMessage, RelationshipWords) THEN "relationship"
  ELSE "general"

\* the forEach over collectionNames, from name i on
RECURSIVE MentionedFrom(_, _, _)
MentionedFrom(lowerMessage, schemaCache, i) ==
  IF i > Len(schemaCache) THEN <<>>
  ELSE LET colName  == ToLowerCase(schemaCache[i].name)
           original == CHOOSE j \in DOMAIN schemaCache :
                         /\ ToLowerCase(schemaCache[j].name) = colName
                         /\ \A k \in 1 .. (j - 1) : ToLowerCase(schemaCache[k].name) # colName
       IN  (IF Includes(lowerMessage, colName) THEN <<schemaCache[original].name>> ELSE <<>>)
           \o MentionedFrom(lowerMessage, schemaCache, i + 1)

parseIntent(msg, schemaCache) ==
  LET lowerMessage == ToLowerCase(msg)
      type         == IntentType(lowerMessage)
      mentioned    == MentionedFrom(lowerMessage, schemaCache, 1)
      filters      == extractFilters(msg)
  IN  [kind |-> "intent",
       type |-> type,
       collection |-> IF mentioned = <<>> THEN <<>> ELSE mentioned[1],
       collections |-> mentioned,
       filters |-> filters,
       fields |-> extractFields(msg, mentioned, schemaCache),
       aggregationStage |-> <<>>,
       limit |-> extractLimit(msg),
       confidence |-> calculateConfidence(type, mentioned, filters)]

(***************************************************************************)
(* JSON.stringify of a filter object and of a pipeline.  The strings of    *)
(* the model hold no character that JSON escapes.                          *)
(***************************************************************************)
RECURSIVE DigitsOf(_)
DigitsOf(n) == IF n < 10 THEN <<ToString(n)>> ELSE DigitsOf(n \div 10) \o <<ToString(n % 10)>>

Quoted(str) == <<"\"">> \o str \o <<"\"">>

StringifyValue(value) ==
  IF value.k = "boolean" THEN (IF value.n = 1 THEN <<"t", "r", "u", "e">> ELSE <<"f", "a", "l", "s", "e">>)
  ELSE IF value.k = "number" THEN DigitsOf(value.n)
  ELSE Quoted(value.s)

RECURSIVE StringifyEntries(_, _)
StringifyEntries(filters, i) ==
  IF i > Len(filters) THEN <<>>
  ELSE (IF i > 1 THEN <<",">> ELSE <<>>)
       \o Quoted(filters[i].key) \o <<":">> \o StringifyValue(filters[i].value)
       \o StringifyEntries(filters, i + 1)

\* JSON.stringify(filters)
StringifyFilters(filters) == <<"{">> \o StringifyEntries(filters, 1) \o <<"}">>

\* a pipeline stage is [op, filters, field, n]: {$match: filters},
\* {$group: {_id: '$' + field, count: {$sum: 1}}} or {$limit: n}
MatchStage(filters) == [op |-> "$match", filters |-> filters, field |-> <<>>, n |-> 0]

GroupStage(field) == [op |-> "$group", filters |-> <<>>, field |-> field, n |-> 0]

LimitStage(n) == [op |-> "$limit", filters |-> <<>>, field |-> <<>>, n |-> n]

StringifyStage(stage) ==
  IF stage.op = "$match"
  THEN <<"{", "\"", "$", "m", "a", "t", "c", "h", "\"", ":">> \o StringifyFilters(stage.filters) \o <<"}">>
  ELSE IF stage.op = "$group"
  THEN <<"{", "\"", "$", "g", "r", "o", "u", "p", "\"", ":", "{", "\"", "_", "i", "d", "\"", ":", "\"", "$">> \o stage.field
       \o <<"\"", ",", "\"", "c", "o", "u", "n", "t", "\"", ":", "{", "\"", "$", "s", "u", "m", "\"", ":", "1", "}", "}", "}">>
  ELSE <<"{", "\"", "$", "l", "i", "m", "i", "t", "\"", ":">> \o DigitsOf(stage.n) \o <<"}">>

RECURSIVE StringifyStages(_, _)
StringifyStages(pipeline, i) ==
  IF i > Len(pipeline) THEN <<>>
  ELSE (IF i > 1 THEN <<",">> ELSE <<>>) \o StringifyStage(pipeline[i])
       \o StringifyStages(pipeline, i + 1)

\* JSON.stringify(pipeline)
StringifyPipeline(pipeline) == <<"[">> \o StringifyStages(pipeline, 1) \o <<"]">>

(***************************************************************************)
(* QueryGeneratorService.generateQuery.  A GeneratedQuery is [kind, type,  *)
(* collection, hasQuery, query, hasPipeline, pipeline, hasOptions,         *)
(* projection, limit, isValid, validationErrors].                          *)
(***************************************************************************)
DefaultFindLimit == 10
DefaultAggregateLimit == 100
MaxProjection == 8

QueryWriteTokens ==
  {<<"$", "s", "e", "t">>, <<"$", "u", "n", "s", "e", "t">>, <<"$", "p", "u", "s", "h">>, <<"$", "p", "u", "l", "l">>, <<"$", "i", "n", "c">>, <<"$", "r", "e", "n", "a", "m", "e">>}

PipelineWriteTokens ==
  {<<"$", "o", "u", "t">>, <<"$", "m", "e", "r", "g", "e">>, <<"$", "s", "e", "t">>, <<"$", "u", "n", "s", "e", "t">>}

EmptyQuery ==
  [kind |-> "query", type |-> "find", collection |-> <<>>,
   hasQuery |-> TRUE, query |-> <<>>, hasPipeline |-> FALSE, pipeline |-> <<>>,
   hasOptions |-> FALSE, projection |-> <<>>, limit |-> NoLimit,
   isValid |-> FALSE, validationErrors |-> <<>>]

\* the errors of validateQuery
validateQuery(query) ==
  (IF query.type \notin {"count", "find", "aggregate"}
   THEN <<"Query type is not allowed">> ELSE <<>>)
  \o (IF query.hasQuery /\ IncludesAny(StringifyFilters(query.query), QueryWriteTokens)
      THEN <<"Write operations are not allowed">> ELSE <<>>)
  \o (IF /\ query.hasPipeline
         /\ IncludesAny(StringifyPipeline(query.pipeline), PipelineWriteTokens)
      THEN <<"Write operations in pipeline are not allowed">> ELSE <<>>)

generateCountQueryAsFind(in, collection) ==
  [EmptyQuery EXCEPT !.type = "find", !.collection = collection.name,
                     !.query = in.filters, !.isValid = TRUE]

generateCountQuery(in, collection) ==
  [EmptyQuery EXCEPT !.type = "count", !.collection = collection.name,
                     !.query = in.filters, !.isValid = TRUE]

\* the names of the fields of the default projection, from field i on
RECURSIVE DefaultProjection(_, _)
DefaultProjection(fs, i) ==
  IF i > Len(fs) THEN <<>>
  ELSE (IF fs[i].type \notin {"Buffer", "Binary"} /\ fs[i].name # <<"_", "i", "d">>
        THEN <<fs[i].name>> ELSE <<>>)
       \o DefaultProjection(fs, i + 1)

\* slice(0, n)
Slice(seq, n) == SubSeq(seq, 1, Min(Len(seq), n))

\* options.limit of generateFindQuery: `if (intent.limit)`, else the default
FindLimit(limit) == IF limit # NoLimit /\ limit # 0 THEN limit ELSE DefaultFindLimit

generateFindQuery(in, collection) ==
  [EmptyQuery EXCEPT
     !.type = "find", !.collection = collection.name, !.query = in.filters,
     !.hasOptions = TRUE,
     !.projection = IF Len(in.fields) > 0 THEN in.fields
                    ELSE Slice(DefaultProjection(collection.fields, 1), MaxProjection),
     !.limit = FindLimit(in.limit),
     !.isValid = TRUE]

\* /group\s+by\s+(\w+)/i with its first character at p: the group, <<>> for none
GroupByAt(str, p) ==
  LET byStart == SkipSpaces(str, p + 5)
      fStart  == SkipSpaces(str, byStart + 2)
  IN  IF /\ MatchesAtNoCase(str, p, <<"g", "r", "o", "u", "p">>)
         /\ byStart > p + 5
         /\ MatchesAtNoCase(str, byStart, <<"b", "y">>)
         /\ fStart > byStart + 2
         /\ WordEnd(str, fStart) > fStart
      THEN SubSeq(str, fStart, WordEnd(str, fStart) - 1)
      ELSE <<>>

\* the $group stages parseAggregationStage gives: one, or none for null
parseAggregationStage(stage) ==
  IF \E p \in DOMAIN stage : GroupByAt(stage, p) # <<>>
  THEN <<GroupStage(GroupByAt(stage, CHOOSE p \in DOMAIN stage :
                                       /\ GroupByAt(stage, p) # <<>>
                                       /\ \A q \in 1 .. (p - 1) : GroupByAt(stage, q) = <<>>))>>
  ELSE <<>>

generateAggregateQuery(in, collection) ==
  [EmptyQuery EXCEPT
     !.type = "aggregate", !.collection = collection.name, !.hasQuery = FALSE,
     !.hasPipeline = TRUE,
     !.pipeline = (IF Len(in.filters) > 0 THEN <<MatchStage(in.filters)>> ELSE <<>>)
                  \o (IF in.aggregationStage # <<>>
                      THEN parseAggregationStage(in.aggregationStage) ELSE <<>>)
                  \o <<LimitStage(IF in.limit # NoLimit /\ in.limit # 0
                                  THEN in.limit ELSE DefaultAggregateLimit)>>,
     !.isValid = TRUE]

MissingCollectionAccepted(collection, error) ==
  [EmptyQuery EXCEPT !.collection = collection, !.isValid = TRUE]

\* what generateQuery returns when the intent has no collection or the
\* collection is not in the schema
MissingCollection(collection, error) ==
  [EmptyQuery EXCEPT !.collection = collection, !.validationErrors = <<error>>]

generateQuery(in, schemaCache) ==
  IF in.collection = <<>>
  THEN MissingCollection(<<>>, "No collection specified in query")
  ELSE IF FindCollection(schemaCache, in.collection) = 0
  THEN MissingCollection(in.collection, "Collection not found in schema")
  ELSE LET collection == schemaCache[FindCollection(schemaCache, in.collection)]
           q == IF in.type = "count" THEN generateCountQuery(in, collection)
                ELSE IF in.type = "aggregate" THEN generateAggregateQuery(in, collection)
                ELSE generateFindQuery(in, collection)
       IN  [q EXCEPT !.isValid = validateQuery(q) = <<>>,
                     !.validationErrors = validateQuery(q)]

(***************************************************************************)
(* The two calls, on the schema snapshot of the project.                   *)
(***************************************************************************)
SchemaField(name, type) == [name |-> name, type |-> type, isArray |-> FALSE]

\* schemaCache.collections
SchemaCache ==
  <<Collection(<<"u", "s", "e", "r", "s">>, <<SchemaField(<<"_", "i", "d">>, "objectId"),
                                  SchemaField(<<"n", "a", "m", "e">>, "string"),
                                  SchemaField(<<"a", "c", "t", "i", "v", "e">>, "boolean"),
                                  SchemaField(<<"a", "g", "e">>, "number")>>),
    Collection(<<"o", "r", "d", "e", "r", "s">>, <<SchemaField(<<"_", "i", "d">>, "objectId"),
                                   SchemaField(<<"s", "t", "a", "t", "u", "s">>, "string"),
                                   SchemaField(<<"t", "o", "t", "a", "l">>, "mixed")>>),
    Collection(<<"e", "v", "e", "n", "t", "s">>,
               <<SchemaField(<<"_", "i", "d">>, "objectId"),
                 SchemaField(<<"k", "i", "n", "d">>, "string"),
                 SchemaField(<<"b", "l", "o", "b">>, "Buffer"),
                 SchemaField(<<"a", "t">>, "date"),
                 SchemaField(<<"b", "y">>, "objectId"),
                 SchemaField(<<"n">>, "number"),
                 SchemaField(<<"o", "k">>, "boolean"),
                 SchemaField(<<"t", "a", "g", "s">>, "array"),
                 SchemaField(<<"m", "e", "t", "a">>, "object"),
                 SchemaField(<<"r", "a", "w">>, "Binary"),
                 SchemaField(<<"i", "p">>, "string"),
                 SchemaField(<<"u", "a">>, "string"),
                 SchemaField(<<"e", "n", "d">>, "null")>>)>>

ParseIntent ==
  /\ intent.kind = "none"
  /\ intent' = parseIntent(message, SchemaCache)
  /\ UNCHANGED <<message, generated>>
  /\ UNCHANGED poolVars
  /\ UNCHANGED reqVars
  /\ UNCHANGED foldVars
  /\ UNCHANGED relVars

GenerateQuery ==
  /\ intent.kind = "intent"
  /\ generated.kind = "none"
  /\ generated' = generateQuery(intent, SchemaCache)
  /\ UNCHANGED <<message, intent>>
  /\ UNCHANGED poolVars
  /\ UNCHANGED reqVars
  /\ UNCHANGED foldVars
  /\ UNCHANGED relVars

(***************************************************************************)
(* The messages of the checks: up to MaxPhrases phrases joined by single   *)
(* spaces.  SpecIntent parses a message and compiles the intent;           *)
(* SpecCompile compiles an intent a caller built itself.                   *)
(***************************************************************************)
MaxPhrases == 3

Phrases ==
  {<<"h", "o", "w", " ", "m", "a", "n", "y">>,
   <<"c", "o", "u", "n", "t">>,
   <<"a", "g", "g", "r", "e", "g", "a", "t", "e">>,
   <<"g", "r", "o", "u", "p", " ", "b", "y", " ", "s", "t", "a", "t", "u", "s">>,
   <<"s", "h", "o", "w">>,
   <<"f", "i", "n", "d">>,
   <<"p", "e", "e", "k">>,
   <<"s", "c", "h", "e", "m", "a">>,
   <<"r", "e", "f", "e", "r", "e", "n", "c", "e", "s">>,
   <<"h", "e", "l", "l", "o">>,
   <<"u", "s", "e", "r", "s">>,
   <<"o", "r", "d", "e", "r", "s">>,
   <<"U", "s", "e", "r", "s">>,
   <<"a", "c", "c", "o", "u", "n", "t", "s">>,
   <<"w", "h", "e", "r", "e", " ", "a", "c", "t", "i", "v", "e", " ", "i", "s", " ", "f", "a", "l", "s", "e">>,
   <<"a", "c", "t", "i", "v", "e", "=", "t", "r", "u", "e">>,
   <<"w", "h", "e", "r", "e", " ", "a", "g", "e", " ", "=", " ", "0">>,
   <<"a", "g", "e", ":", "5">>,
   <<"w", "h", "e", "r", "e", " ", "n", "a", "m", "e", " ", "e", "q", "u", "a", "l", "s", " ", "b", "o", "b">>,
   <<"n", "a", "m", "e", "=", "$", "s", "e", "t">>,
   <<"l", "i", "m", "i", "t", " ", "2", "0">>,
   <<"t", "o", "p", " ", "5", "0", "0", "0">>,
   <<"f", "i", "r", "s", "t", " ", "0">>,
   <<"F", "i", "r", "s", "t", " ", "1", "0", "0", "0">>}

RECURSIVE Join(_, _)
Join(parts, i) ==
  IF i > Len(parts) THEN <<>>
  ELSE (IF i > 1 THEN <<" ">> ELSE <<>>) \o parts[i] \o Join(parts, i + 1)

Messages == {Join(parts, 1) : parts \in UNION {[1 .. n -> Phrases] : n \in 0 .. MaxPhrases}}

InitIntent ==
  /\ PoolInit /\ ReqInit /\ FoldIdle /\ RelIdle
  /\ message \in Messages
  /\ intent = NoResult
  /\ generated = NoResult

NextIntent == ParseIntent \/ GenerateQuery

SpecIntent == InitIntent /\ [][NextIntent]_vars

IntentTypes == {"count", "aggregate", "find", "schema", "relationship", "general"}

Filter(key, value) == <<[key |-> key, value |-> value]>>

FilterSets ==
  {<<>>,
   Filter(<<"a", "c", "t", "i", "v", "e">>, BoolValue(FALSE)),
   Filter(<<"a", "g", "e">>, NumberValue(0)),
   Filter(<<"n", "a", "m", "e">>, StringValue(<<"$", "s", "e", "t">>))}
  \cup {Filter(token, StringValue(<<"x">>)) : token \in QueryWriteTokens \cup PipelineWriteTokens}

Intents ==
  {[kind |-> "intent", type |-> t, collection |-> c,
    collections |-> IF c = <<>> THEN <<>> ELSE <<c>>,
    filters |-> f, fields |-> fs, aggregationStage |-> a, limit |-> l,
    confidence |-> calculateConfidence(t, IF c = <<>> THEN <<>> ELSE <<c>>, f)] :
     t \in IntentTypes,
     c \in {<<>>, <<"u", "s", "e", "r", "s">>, <<"o", "r", "d", "e", "r", "s">>,
            <<"e", "v", "e", "n", "t", "s">>, <<"g", "h", "o", "s", "t">>},
     f \in FilterSets,
     fs \in {<<>>, <<<<"n", "a", "m", "e">>>>},
     a \in {<<>>, <<"g", "r", "o", "u", "p", " ", "b", "y", " ", "s", "t", "a", "t", "u", "s">>},
     l \in {NoLimit, 0, 20, MaxLimit}}

InitCompile ==
  /\ PoolInit /\ ReqInit /\ FoldIdle /\ RelIdle
  /\ message = <<>>
  /\ intent \in Intents
  /\ generated = NoResult

NextCompile == GenerateQuery

SpecCompile == InitCompile /\ [][NextCompile]_vars

Parsed == intent.kind = "intent"

Compiled == generated.kind = "query"

\* the position of a type in the order count, aggregate, find, schema,
\* relationship, and 6 for general
BucketWords ==
  <<CountWords, AggregateWords, FindWords, SchemaWords, RelationshipWords>>

BucketTypes == <<"count", "aggregate", "find", "schema", "relationship", "general">>

MatchedBuckets == {b \in 1 .. 5 : IncludesAny(ToLowerCase(message), BucketWords[b])}

\* C15: parseIntent gives the type of the earliest bucket, in the order count,
\* aggregate, find, schema, relationship, that has a keyword in the lowercased
\* message, and general when no bucket has one.
C15_TypePriority ==
  Parsed =>
    /\ MatchedBuckets = {} => intent.type = "general"
    /\ \A b \in MatchedBuckets :
         (\A a \in MatchedBuckets : b <= a) => intent.type = BucketTypes[b]

\* C15 witness: a parsed message with keywords of the find and the count
\* buckets, typed count.
C15_Witness ==
  /\ Parsed
  /\ {1, 3} \subseteq MatchedBuckets
  /\ intent.type = "count"

\* the filters after the first pass of extractFilters over the message
FirstPass == WherePass(message, 1, <<>>)

\* C16: after parseIntent every field the first pass (where <field>
\* is|equals|= <value>) assigned, the values false and 0 included, has in the
\* filters the value the first pass gave it: the second pass
\* (<field>[:=]<value>) has not changed it.
C16_FirstPassKept ==
  Parsed =>
    \A i \in DOMAIN FirstPass :
      /\ HasKey(intent.filters, FirstPass[i].key)
      /\ intent.filters[KeyIndex(intent.filters, FirstPass[i].key)].value = FirstPass[i].value

\* the message holds limit|top|first N
HasLimitPhrase == LimitSearch(message, 1) # 0

\* the N of the leftmost limit|top|first N of the message
LimitNumber ==
  LET m == LimitMatchAt(message, LimitSearch(message, 1))
  IN  ParseDigits(SubSeq(message, m[1], m[2] - 1), 0)

\* a find query was compiled for a collection of the snapshot
CompiledFind == Compiled /\ generated.type = "find" /\ generated.hasOptions

\* C17: for a message with limit|top|first N the intent limit is min(N, 1000),
\* for every N >= 0, and the find query compiled from the intent has
\* options.limit equal to the intent limit; without such a phrase the compiled
\* find query has options.limit = 10.
C17_LimitCarried ==
  /\ Parsed /\ HasLimitPhrase => intent.limit = Min(LimitNumber, 1000)
  /\ CompiledFind =>
       generated.limit = IF HasLimitPhrase THEN intent.limit ELSE 10

\* 1 for a condition that holds, 0 for one that does not
Indicator(cond) == IF cond THEN 1 ELSE 0

\* in hundredths: 0.5 + 0.3 [a collection is mentioned] + 0.15 [a filter was
\* extracted] + 0.15 [type is not general] + 0.2 [type is find and a
\* collection is mentioned], capped at 1
ConfidenceFormula(type, mentioned, filters) ==
  Min(100, 50 + 30 * Indicator(mentioned # <<>>)
              + 15 * Indicator(filters # <<>>)
              + 15 * Indicator(type # "general")
              + 20 * Indicator(type = "find" /\ mentioned # <<>>))

\* C18: the confidence of a parsed intent equals the capped sum of the base
\* and the bonuses that apply, lies in [0, 1], and is not above the confidence
\* of the same inputs with one more bonus condition true: a collection
\* mentioned, a filter extracted, a type other than general, or the type find.
C18_ConfidenceFormula ==
  Parsed =>
    /\ intent.confidence = calculateConfidence(intent.type, intent.collections, intent.filters)
    /\ intent.confidence = ConfidenceFormula(intent.type, intent.collections, intent.filters)
    /\ intent.confidence \in 0 .. 100
    /\ intent.collections = <<>> =>
         \A t \in {intent.type, "find"} :
           intent.confidence <= calculateConfidence(t, <<SchemaCache[1].name>>, intent.filters)
    /\ intent.filters = <<>> =>
         intent.confidence
           <= calculateConfidence(intent.type, intent.collections,
                                  Filter(<<"a">>, NumberValue(1)))
    /\ intent.type = "general" =>
         \A t \in IntentTypes \ {"general"} :
           intent.confidence <= calculateConfidence(t, intent.collections, intent.filters)
    /\ intent.type # "find" =>
         intent.confidence <= calculateConfidence("find", intent.collections, intent.filters)

\* C18 witness: a parsed find intent with a collection and a filter, whose
\* bonuses add up to more than 1 and whose confidence is 1.
C18_Witness ==
  /\ Parsed
  /\ intent.type = "find"
  /\ intent.collections # <<>>
  /\ intent.filters # <<>>
  /\ intent.confidence = 100

\* the collections of the schema whose lowercased name the lowercased message
\* includes
MentionedInMessage ==
  {i \in DOMAIN SchemaCache :
     Includes(ToLowerCase(message), ToLowerCase(SchemaCache[i].name))}

\* the message has a count keyword, mentions exactly one collection and
\* matches neither filter pattern
CountQuestion ==
  /\ IncludesAny(ToLowerCase(message), CountWords)
  /\ Cardinality(MentionedInMessage) = 1
  /\ WhereSearch(message, 1) = 0
  /\ EqSearch(message, 1) = 0

\* C19: for a message with 'how many' or 'count' that mentions exactly one
\* collection and matches no filter pattern, the intent has type count, that
\* collection and confidence >= 0.8, and the compiled query is valid, of type
\* count, on that collection, with the empty query {}.
C19_CountScenario ==
  CountQuestion =>
    LET collection == SchemaCache[CHOOSE i \in MentionedInMessage : TRUE].name
    IN  /\ Parsed =>
             /\ intent.type = "count"
             /\ intent.collection = collection
             /\ intent.confidence >= 80
        /\ Compiled =>
             /\ generated.isValid
             /\ generated.validationErrors = <<>>
             /\ generated.type = "count"
             /\ generated.collection = collection
             /\ generated.hasQuery /\ generated.query = <<>>

\* C19 witness: the compiled count query of a message with 'how many' and one
\* collection.
C19_Witness ==
  /\ CountQuestion
  /\ Includes(ToLowerCase(message), <<"h", "o", "w", " ", "m", "a", "n", "y">>)
  /\ Compiled
  /\ generated.type = "count"
  /\ generated.isValid

\* the intent has no collection, or one that is not in the snapshot
NoSuchCollection ==
  \/ intent.collection = <<>>
  \/ \A i \in DOMAIN SchemaCache : SchemaCache[i].name # intent.collection

\* C20: generateQuery on an intent without a collection, or with a collection
\* that is not in the snapshot, returns isValid = false, at least one
\* validation error and the empty query {}, whatever the type and the filters
\* of the intent.
C20_MissingCollectionInvalid ==
  Compiled /\ NoSuchCollection =>
    /\ ~generated.isValid
    /\ generated.validationErrors # <<>>
    /\ generated.hasQuery /\ generated.query = <<>>
    /\ ~generated.hasPipeline

\* C20 witness: the query compiled from an aggregate intent with a filter on a
\* collection the snapshot does not hold.
C20_Witness ==
  /\ Compiled
  /\ intent.collection # <<>>
  /\ NoSuchCollection
  /\ intent.type = "aggregate"
  /\ intent.filters # <<>>
  /\ ~generated.isValid

\* $set, $unset, $push, $pull, $inc, $rename, $out and $merge
WriteTokens == QueryWriteTokens \cup PipelineWriteTokens

\* the filters of the intent have a write token as a key
OperatorKey == \E i \in DOMAIN intent.filters : intent.filters[i].key \in WriteTokens

\* the filters of the intent have a write token as a value
TokenValue ==
  \E i \in DOMAIN intent.filters :
    intent.filters[i].value.k = "string" /\ intent.filters[i].value.s \in WriteTokens

\* the intent names a collection of the snapshot
KnownCollection == Parsed /\ ~NoSuchCollection

\* C21: a query compiled from a count, find or aggregate intent whose filters
\* have $set, $unset, $push, $pull, $inc, $rename, $out or $merge as a key is
\* not valid.
C21_OperatorKeysRejected ==
  Compiled /\ intent.type \in {"count", "find", "aggregate"} /\ OperatorKey =>
    ~generated.isValid

\* C22: a query compiled for a known collection from filters that hold a write
\* token only as a value is valid, and one compiled from filters that hold
\* the token as a key is not.
C22_ValuesAreData ==
  Compiled /\ KnownCollection =>
    /\ TokenValue /\ ~OperatorKey => generated.isValid
    /\ OperatorKey => ~generated.isValid

\* the message holds 'group by <field>' and mentions a collection of the schema
GroupByQuestion ==
  /\ parseAggregationStage(message) # <<>>
  /\ MentionedInMessage # {}

\* the limits a final $limit stage may hold: the intent limit, or 100 when the
\* intent has none (either when it is 0)
FinalLimits ==
  IF intent.limit = NoLimit THEN {100}
  ELSE IF intent.limit = 0 THEN {0, 100}
  ELSE {intent.limit}

\* C23: the query compiled from a message with 'group by <field>' that
\* mentions a collection is an aggregate whose pipeline is a $match stage when
\* the filters are non-empty, then {$group: {_id: "$<field>", count: {$sum:
\* 1}}}, then a $limit stage with the intent limit or 100.
C23_GroupByPipeline ==
  Compiled /\ GroupByQuestion =>
    /\ generated.type = "aggregate"
    /\ generated.hasPipeline
    /\ \E n \in FinalLimits :
         generated.pipeline =
           (IF intent.filters # <<>> THEN <<MatchStage(intent.filters)>> ELSE <<>>)
             \o parseAggregationStage(message) \o <<LimitStage(n)>>

\* the names of the fields from field i on that are not _id, not binary-typed
\* and not of type mixed
RECURSIVE Projectable(_, _)
Projectable(fs, i) ==
  IF i > Len(fs) THEN <<>>
  ELSE (IF /\ fs[i].name # <<"_", "i", "d">>
           /\ fs[i].type \notin {"Buffer", "Binary", "mixed"}
        THEN <<fs[i].name>> ELSE <<>>)
       \o Projectable(fs, i + 1)

\* C24: the find query compiled from an intent without fields projects the
\* first 8 fields of the collection, in schema order, that are not _id, not
\* binary-typed and not of type mixed.
C24_DefaultProjection ==
  CompiledFind /\ intent.fields = <<>> =>
    LET fs == SchemaCache[FindCollection(SchemaCache, intent.collection)].fields
    IN  generated.projection = SubSeq(Projectable(fs, 1), 1, Min(8, Len(Projectable(fs, 1))))

(***************************************************************************)
(* The documents of the connected database, and what the three read        *)
(* methods of MongoDBService return on them.  A document is a list of      *)
(* [key, value] entries, as a filter is.                                   *)
(***************************************************************************)
Entry(key, value) == [key |-> key, value |-> value]

DbDocuments(collectionName) ==
  IF collectionName = <<"u", "s", "e", "r", "s">>
  THEN <<<<Entry(<<"n", "a", "m", "e">>, StringValue(<<"b", "o", "b">>)),
           Entry(<<"a", "c", "t", "i", "v", "e">>, BoolValue(FALSE)),
           Entry(<<"a", "g", "e">>, NumberValue(0))>>,
         <<Entry(<<"n", "a", "m", "e">>, StringValue(<<"e", "v", "e">>)),
           Entry(<<"a", "c", "t", "i", "v", "e">>, BoolValue(TRUE)),
           Entry(<<"a", "g", "e">>, NumberValue(5))>>,
         <<Entry(<<"n", "a", "m", "e">>, StringValue(<<"d", "a", "n">>)),
           Entry(<<"a", "c", "t", "i", "v", "e">>, BoolValue(TRUE)),
           Entry(<<"a", "g", "e">>, NumberValue(0))>>>>
  ELSE IF collectionName = <<"o", "r", "d", "e", "r", "s">>
  THEN <<<<Entry(<<"s", "t", "a", "t", "u", "s">>, StringValue(<<"o", "p", "e", "n">>)),
           Entry(<<"t", "o", "t", "a", "l">>, NumberValue(7))>>,
         <<Entry(<<"s", "t", "a", "t", "u", "s">>, StringValue(<<"p", "a", "i", "d">>)),
           Entry(<<"t", "o", "t", "a", "l">>, StringValue(<<"7">>))>>>>
  ELSE <<>>

\* a document matches a filter of equalities
Matches(doc, filter) ==
  \A i \in DOMAIN filter :
    /\ HasKey(doc, filter[i].key)
    /\ doc[KeyIndex(doc, filter[i].key)].value = filter[i].value

\* the documents of docs, from document i on, that match the filter
RECURSIVE Matching(_, _, _)
Matching(docs, filter, i) ==
  IF i > Len(docs) THEN <<>>
  ELSE (IF Matches(docs[i], filter) THEN <<docs[i]>> ELSE <<>>)
       \o Matching(docs, filter, i + 1)

CountResult(n) == [kind |-> "count", n |-> n, rows |-> <<>>]

RowsResult(rows) == [kind |-> "rows", n |-> Len(rows), rows |-> rows]

\* MongoDBService.getCollectionCount as AIService.executeQuery calls it for
\* a generated query with this collection and this query: countDocuments()
getCollectionCount(collectionName, filter) ==
  CountResult(Len(DbDocuments(collectionName)))

\* MongoDBService.executeReadQuery: find(query, options).toArray()
executeReadQuery(collectionName, query, limit) ==
  RowsResult(Slice(Matching(DbDocuments(collectionName), query, 1), limit))

\* the values of a field in rows, from row i on, each once
RECURSIVE GroupIds(_, _, _, _)
GroupIds(rows, field, i, seen) ==
  IF i > Len(rows) THEN seen
  ELSE LET id == IF HasKey(rows[i], field)
                 THEN rows[i][KeyIndex(rows[i], field)].value
                 ELSE StringValue(<<>>)
       IN  GroupIds(rows, field, i + 1,
                    IF \E j \in DOMAIN seen : seen[j] = id THEN seen ELSE Append(seen, id))

\* the rows after the stages of a pipeline from stage i on
RECURSIVE RunPipeline(_, _, _)
RunPipeline(rows, pipeline, i) ==
  IF i > Len(pipeline) THEN rows
  ELSE LET stage == pipeline[i]
           out == IF stage.op = "$match" THEN Matching(rows, stage.filters, 1)
                  ELSE IF stage.op = "$group"
                  THEN LET ids == GroupIds(rows, stage.field, 1, <<>>)
                       IN  [j \in DOMAIN ids |-> <<Entry(<<"_", "i", "d">>, ids[j])>>]
                  ELSE Slice(rows, stage.n)
       IN  RunPipeline(out, pipeline, i + 1)

\* MongoDBService.executeAggregation: aggregate(pipeline).toArray()
executeAggregation(collectionName, pipeline) ==
  RowsResult(RunPipeline(DbDocuments(collectionName), pipeline, 1))

(***************************************************************************)
(* AIService.generateResponse and AIService.executeQuery.  The slot holds  *)
(* the MongoDBService of executeQuery; result is queryResult, and          *)
(* queryExecuted is true exactly when it is set.                           *)
(***************************************************************************)
CONFIDENCE_THRESHOLD == 60

NoGate(in, schemaCache, mongoUri) == TRUE

\* the condition of step 2 of generateResponse
ExecutionGate(in, schemaCache, mongoUri) ==
  /\ in.confidence > CONFIDENCE_THRESHOLD
  /\ in.type \notin {"general", "schema", "relationship"}
  /\ mongoUri # URI_EMPTY

AiIdle == \A s \in Services : svc[s].op # "ai"

\* step 1: parseIntent
AiParse(s, mongoUri) ==
  /\ svc[s].pc = "idle"
  /\ AiIdle
  /\ intent' = parseIntent(message, SchemaCache)
  /\ generated' = NoResult
  /\ svc' = [svc EXCEPT ![s] = [IdleSvc EXCEPT !.op = "ai", !.pc = "parsed", !.cs = mongoUri]]
  /\ UNCHANGED <<message, writes, redis, persisted>>
  /\ UNCHANGED poolVars
  /\ UNCHANGED foldVars
  /\ UNCHANGED relVars

\* step 2: generateQuery when the gate is open; a valid query goes on to
\* executeQuery, which constructs the MongoDBService and calls connect()
AiGate(s) ==
  /\ svc[s].op = "ai"
  /\ svc[s].pc = "parsed"
  /\ IF ExecutionGate(intent, SchemaCache, svc[s].cs)
     THEN /\ generated' = generateQuery(intent, SchemaCache)
          /\ svc' = [svc EXCEPT ![s].pc = IF generated'.isValid THEN "connect" ELSE "respond"]
     ELSE /\ svc' = [svc EXCEPT ![s].pc = "respond"]
          /\ UNCHANGED generated
  /\ UNCHANGED <<message, intent, writes, redis, persisted>>
  /\ UNCHANGED poolVars
  /\ UNCHANGED foldVars
  /\ UNCHANGED relVars

\* connect() threw: finally disconnect() of a service that is not connected,
\* and the catch of step 2 goes on to the response
AiConnectFailed(s) ==
  /\ svc[s].op = "ai"
  /\ svc[s].pc = "connectFailed"
  /\ svc' = [svc EXCEPT ![s].failedAt = "connect", ![s].pc = "respond"]
  /\ UNCHANGED <<writes, redis, persisted>>
  /\ UNCHANGED poolVars
  /\ UNCHANGED pureVars

\* the switch of executeQuery: the call that goes to the database
AiExec(s) ==
  /\ svc[s].op = "ai"
  /\ svc[s].pc = "connected"
  /\ svc' = [svc EXCEPT ![s].arg = <<generated.type>>, ![s].pc = "exec"]
  /\ UNCHANGED <<writes, redis, persisted>>
  /\ UNCHANGED poolVars
  /\ UNCHANGED pureVars

\* what the call of executeQuery resolves to
AiQueryResult(query) ==
  IF query.type = "count" THEN getCollectionCount(query.collection, query.query)
  ELSE IF query.type = "find"
  THEN executeReadQuery(query.collection, query.query, query.limit)
  ELSE executeAggregation(query.collection, query.pipeline)

\* the call resolved or rejected; finally disconnect(); a rejection is caught
\* in step 2
AiDone(s, ok) ==
  /\ svc[s].op = "ai"
  /\ svc[s].pc = "exec"
  /\ pools' = PoolsAfterDisconnect(pools, svc[s], now)
  /\ svc' = [svc EXCEPT ![s] =
               [SvcAfterDisconnect(svc[s]) EXCEPT
                  !.result = IF ok THEN AiQueryResult(generated) ELSE NoResult,
                  !.failedAt = IF ok THEN "none" ELSE "query",
                  !.pc = "respond"]]
  /\ UNCHANGED <<cleanupInterval, closeAllPc, visited, now, ticks, clients, writes, redis, persisted>>
  /\ UNCHANGED pureVars

\* step 4: the completion; its failure is thrown as a ValidationError
AiRespond(s, ok) ==
  /\ svc[s].op = "ai"
  /\ svc[s].pc = "respond"
  /\ svc' = [svc EXCEPT ![s].threw = ~ok,
                        ![s].failedAt = IF ok THEN @ ELSE "completion",
                        ![s].pc = "done"]
  /\ UNCHANGED <<writes, redis, persisted>>
  /\ UNCHANGED poolVars
  /\ UNCHANGED pureVars

\* the messages of the chat
ChatMessages ==
  {<<"h", "e", "l", "l", "o">>,
   <<"s", "c", "h", "e", "m", "a", " ", "u", "s", "e", "r", "s">>,
   <<"h", "o", "w", " ", "m", "a", "n", "y", " ", "u", "s", "e", "r", "s">>,
   <<"s", "h", "o", "w", " ", "o", "r", "d", "e", "r", "s">>,
   <<"h", "o", "w", " ", "m", "a", "n", "y", " ", "u", "s", "e", "r", "s", " ", "w", "h", "e", "r", "e", " ", "a", "c", "t", "i", "v", "e", " ", "i", "s", " ", "f", "a", "l", "s", "e">>,
   <<"s", "h", "o", "w", " ", "u", "s", "e", "r", "s", " ", "n", "a", "m", "e", "=", "$", "s", "e", "t">>,
   <<"g", "r", "o", "u", "p", " ", "b", "y", " ", "s", "t", "a", "t", "u", "s", " ", "o", "r", "d", "e", "r", "s">>}

\* request bodies of the chat query endpoint: <<queryType, query.pipeline>>
ChatBodies == { <<"find", <<>> >>, <<"aggregate", <<"$match", "$out">> >> }

InitChat ==
  /\ PoolInit /\ ReqInit /\ FoldIdle /\ RelIdle
  /\ message \in ChatMessages
  /\ intent = NoResult
  /\ generated = NoResult

\* chat messages answered by AIService and calls of the chat query endpoint,
\* under any interleaving
NextChat ==
  \/ \E s \in Services, mongoUri \in {URI_A, URI_EMPTY} : AiParse(s, mongoUri)
  \/ \E s \in Services : AiGate(s)
  \/ \E s \in Services : ConnectStart(s)
  \/ \E s \in Services, ok \in BOOLEAN : ConnectEnd(s, ok)
  \/ \E s \in Services : AiConnectFailed(s)
  \/ \E s \in Services : AiExec(s)
  \/ \E s \in Services, ok \in BOOLEAN : AiDone(s, ok)
  \/ \E s \in Services, ok \in BOOLEAN : AiRespond(s, ok)
  \/ \E s \in Services, rq \in ChatBodies : ChatQueryStart(s, URI_A, rq[1], rq[2])
  \/ \E s \in Services : ChatQueryConnectFailed(s)
  \/ \E s \in Services : ChatQueryExec(s)
  \/ \E s \in Services, ok \in BOOLEAN : ChatQueryDone(s, ok)
  \/ \E s \in Services : Finish(s)

SpecChat == InitChat /\ [][NextChat]_vars

\* the slot runs generateResponse and has called executeQuery
AiCalledExecute(s) ==
  /\ svc[s].op = "ai"
  /\ \/ svc[s].pc \in {"connect", "connecting", "connected", "connectFailed", "exec"}
     \/ svc[s].failedAt \in {"connect", "query"}
     \/ svc[s].result.kind # "none"

C25_ExecutedOnlyThroughGate ==
  \A s \in Services :
    /\ AiCalledExecute(s) =>
         /\ intent.confidence > 60
         /\ intent.type \in {"count", "find", "aggregate"}
         /\ generated.kind = "query" /\ generated.isValid
    /\ svc[s].op = "ai" /\ svc[s].threw => svc[s].failedAt = "completion"
    /\ svc[s].op = "ai" /\ svc[s].pc = "respond" /\ svc[s].failedAt # "none" =>
         svc[s].result.kind = "none"

C25_FallsBackToResponse ==
  \A s \in Services :
    /\ svc[s].op = "ai"
    /\ svc[s].pc \in {"parsed", "connectFailed", "exec"}
    /\ svc'[s] # svc[s]
    => /\ svc'[s].pc \in {"connect", "respond"}
       /\ ~svc'[s].threw

\* C25: generateResponse calls executeQuery only for an intent with confidence
\* > 0.6 and type count, find or aggregate whose compiled query is valid; when
\* the gate is closed, and when connect or the query fails, its next step is
\* the response of step 4 with no query result, and the only error it throws
\* is the one of the completion itself.
C25_GatedExecution ==
  [](C25_ExecutedOnlyThroughGate) /\ [][C25_FallsBackToResponse]_vars

\* C25 witness: a response given after the execution of a valid query failed.
C25_Witness ==
  \E s \in Services :
    /\ svc[s].op = "ai"
    /\ svc[s].pc = "done"
    /\ svc[s].failedAt = "query"
    /\ ~svc[s].threw
    /\ generated.isValid

\* the slot has a find or an aggregation in flight at the database
ReadInFlight(s) ==
  /\ svc[s].pc = "exec"
  /\ svc[s].arg[1] \in {"find", "aggregate"}

\* C26: every find and every aggregation in flight at the database belongs to
\* generateResponse and runs the query that generateQuery returned as valid;
\* no request executes a filter or a pipeline of its caller.
C26_OnlyValidatedQueriesRun ==
  \A s \in Services :
    ReadInFlight(s) =>
      /\ svc[s].op = "ai"
      /\ generated.kind = "query"
      /\ generated.isValid
      /\ generated.type = svc[s].arg[1]

\* C27: in every state of the pool, under any interleaving of getConnection,
\* releaseConnection, sweep ticks and closeAll, every pool entry has
\* refCount >= 0.
C27_RefCountNonNegative == \A key \in DOMAIN pools : pools[key].refCount >= 0

\* no request is running
Quiescent == \A s \in Services : svc[s].pc \in {"idle", "done"}

\* C28: a request that has ended has released the pooled connection as often
\* as it acquired it, at most once, whether it failed or not, and when no
\* request is running every pool entry has refCount 0.
C28_ReleasedOnEveryPath ==
  /\ \A s \in Services :
       svc[s].pc = "done" => svc[s].acq <= 1 /\ svc[s].rel = svc[s].acq
  /\ Quiescent => \A key \in DOMAIN pools : pools[key].refCount = 0

\* C29: the count that the execution of a valid count query returns is the
\* number of documents of the collection that match the query's filter.
C29_CountIsFiltered ==
  \A s \in Services :
    svc[s].op = "ai" /\ svc[s].result.kind = "count" =>
      /\ generated.type = "count" /\ generated.isValid
      /\ generated.query = intent.filters
      /\ svc[s].result.n
           = Len(Matching(DbDocuments(generated.collection), generated.query, 1))

\* the fieldMap after analyzeFields has folded the documents from i on
RECURSIVE FoldFrom(_, _, _)
FoldFrom(docs, i, fm) ==
  IF i > Len(docs) THEN fm
  ELSE FoldFrom(docs, i + 1, extractFieldsFromDocument(docs[i], <<>>, fm, 0))

\* the (path, type) pairs of a fieldMap
PathTypes(fm) == {<<fm[i].path, fm[i].field.type>> : i \in DOMAIN fm}

\* C30: the types of the fields after the fold are those of the fold of any
\* permutation of the same sampled documents, samples with null values
\* included.
C30_TypeOrderIndependent ==
  Finished =>
    /\ fieldMap = FoldFrom(samples, 1, <<>>)
    /\ \A docs \in Reorderings(samples) :
         PathTypes(FoldFrom(docs, 1, <<>>)) = PathTypes(fieldMap)

====
